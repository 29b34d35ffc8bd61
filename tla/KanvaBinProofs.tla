--------------------------- MODULE KanvaBinProofs ---------------------------
(***************************************************************************)
(* Proofs about a position of a Kanva model, for any number of threads and *)
(* keys and any limits of leaves and roots.                                *)
(*                                                                         *)
(* The argument: a list that is not closed belongs to a leaf of the        *)
(* current root of the bin (Open).  So an insert that links its key, on    *)
(* whatever root it has loaded, links it into the tree that finds search;  *)
(* and the place is right, because a split of another leaf moves no        *)
(* separator of this one (Placed).  Roots change only by the split of a    *)
(* closed leaf, which keeps its keys, and no more once the root is marked: *)
(* thus whoever collects the marked root collects the tree, and all        *)
(* collect the same keys (Trained).  Since no leaf ever holds a key that   *)
(* was not linked (OnlyLinked), the set that finds search is the set that  *)
(* inserts have built, at every step.                                      *)
(***************************************************************************)
EXTENDS KanvaBin, FiniteSetTheorems, SequenceTheorems, WellFoundedInduction, TLAPS

-----------------------------------------------------------------------------
(* The bin *)

PC == InsertSteps \cup FindSteps \cup {"idle"}
LeafType == [keys : SUBSET Keys, count : Nat, list : {"open", "freezing", "closed"}]

\* Key k belongs to kid i of a root with the separators s.
Between(s, i, k) ==
    /\ i > 1 => s[i - 1] <= k
    /\ i <= Len(s) => k <= s[i]

Fits(r) == Len(r.kids) = Len(r.seps) + 1 /\ Len(r.seps) <= RootMax

Shared ==
    /\ mob \in {"null", "bin", "model"}
    /\ leaves \in Seq(LeafType)
    /\ root \in Roots
    /\ trained \in Seq(SUBSET Keys)
    /\ deep \subseteq Keys
    /\ calls \in 0 .. MaxCalls
    /\ linked \subseteq Keys /\ told \subseteq Keys

Ascends(s) == \A i, j \in DOMAIN s : i <= j => s[i] <= s[j]

Tree ==
    /\ mob # "null" => Fits(root)
    /\ Ascends(root.seps)
    /\ \A i, j \in DOMAIN root.kids : root.kids[i] = root.kids[j] => i = j
    /\ \A i \in DOMAIN root.kids : \A k \in leaves[root.kids[i]].keys : Between(root.seps, i, k)

\* A leaf whose list takes keys is a leaf of the bin.
Open ==
    \A i \in DOMAIN leaves : leaves[i].list # "closed" =>
        mob = "bin" /\ \E j \in DOMAIN root.kids : root.kids[j] = i

\* Only the collect of a marked root freezes empty leaves.
Filled ==
    \A i \in DOMAIN leaves :
        leaves[i].list # "open" \/ leaves[i].count >= ChildMax
            => leaves[i].keys # {} \/ root.marked

Trained ==
    /\ mob = "null" => leaves = <<>> /\ linked = {} /\ ~ root.marked
    /\ mob # "model" => trained = <<>>
    /\ mob = "model" =>
        /\ root.marked
        /\ DOMAIN trained = DOMAIN root.kids
        /\ \A i \in DOMAIN trained : trained[i] = leaves[root.kids[i]].keys

Bins == Shared /\ Tree /\ Open /\ Filled /\ Trained /\ LinkedKept

-----------------------------------------------------------------------------
(* The threads *)

LeafSteps == {"count", "list", "counted", "collect", "collecting", "swing"}
SplitSteps == {"collect", "collecting", "swing"}
NoBin == {"idle", "mob", "new", "find", "present", "absent"}

Types(t) ==
    /\ pc[t] = "idle" \/ key[t] \in Keys
    /\ pc[t] \notin NoBin => mob # "null"
    /\ pc[t] \in {"deep", "finddeep"} => mob = "model"
    /\ pc[t] \in LeafSteps \cup {"findlist"} => at[t] \in DOMAIN seen[t].kids
    /\ pc[t] \in LeafSteps \cup {"mark"} => ~ seen[t].marked /\ Fits(seen[t])

Inserts(t) ==
    /\ pc[t] \in SplitSteps => Len(seen[t].seps) < RootMax
    /\ pc[t] \in SplitSteps \cup {"counted"} => leaves[Child(t)].keys # {} \/ root.marked
    /\ pc[t] = "swing" => leaves[Child(t)].list = "closed"
    /\ pc[t] \in {"count", "list"} =>
        \A j \in DOMAIN root.kids : root.kids[j] = Child(t) => Between(root.seps, j, key[t])

Gathers(t) ==
    /\ pc[t] \in {"gather", "gathering"} =>
        /\ root.marked /\ seen[t] = root
        /\ at[t] \in 1 .. Len(seen[t].kids) + 1
        /\ \A i \in DOMAIN seen[t].kids : i < at[t] => leaves[seen[t].kids[i]].list = "closed"
    /\ pc[t] = "gathering" => at[t] <= Len(seen[t].kids)

Separates(s, k) == \E i \in DOMAIN s : s[i] = k

Finds(t) ==
    /\ was[t] /\ pc[t] \in FindSteps => key[t] \in linked
    /\ was[t] /\ pc[t] = "findlist" =>
        key[t] \in leaves[Child(t)].keys \/ key[t] \in deep \/ Separates(seen[t].seps, key[t])
    /\ was[t] /\ pc[t] = "absent" => key[t] \in deep \/ Separates(seen[t].seps, key[t])

ThreadInv(t) == Types(t) /\ Inserts(t) /\ Gathers(t) /\ Finds(t)

Arrays ==
    /\ pc \in [Threads -> PC]
    /\ key \in [Threads -> Keys \cup {NoKey}]
    /\ seen \in [Threads -> Roots]
    /\ at \in [Threads -> Nat]
    /\ was \in [Threads -> BOOLEAN]

IInv == Bins /\ Arrays /\ CountCovers /\ \A t \in Threads : ThreadInv(t)

-----------------------------------------------------------------------------
(* Numbers, sequences and the halves of a set *)

LEMMA Least ==
    ASSUME NEW T, T \subseteq Nat, T # {}
    PROVE  \E x \in T : \A y \in T : x <= y
<1> DEFINE R == {ss \in Nat \X Nat : ss[1] < ss[2]}
<1>1. IsWellFoundedOn(R, Nat)
  BY NatLessThanWellFounded, Zenon DEF OpToRel
<1> HIDE DEF R
<1>2. PICK x \in T : \A y \in T : ~(<<y, x>> \in R)
  BY <1>1, WFMin, Zenon
<1>3. ASSUME NEW y \in T, y < x PROVE FALSE
  <2>1. <<y, x>> \in Nat \X Nat /\ <<y, x>>[1] < <<y, x>>[2]
    BY <1>3
  <2>2. <<y, x>> \in R
    BY <2>1 DEF R
  <2> QED BY <2>2, <1>2
<1> QED BY <1>3, SMT

\* x is s with e inserted at position i.
Widened(x, s, i, e) ==
    /\ Len(x) = Len(s) + 1
    /\ \A j \in 1 .. i - 1 : x[j] = s[j]
    /\ x[i] = e
    /\ \A j \in i .. Len(s) : x[j + 1] = s[j]

LEMMA Inserted ==
    ASSUME NEW S, NEW s \in Seq(S), NEW i \in 1 .. Len(s) + 1, NEW e \in S
    PROVE  InsertAt(s, i, e) \in Seq(S) /\ Widened(InsertAt(s, i, e), s, i, e)
<1> DEFINE a == SubSeq(s, 1, i - 1)
           b == <<e>>
           c == SubSeq(s, i, Len(s))
<1>0. Len(s) \in Nat /\ i \in Nat /\ i >= 1 /\ i <= Len(s) + 1
  BY LenProperties
<1>1. a \in Seq(S) /\ Len(a) = i - 1 /\ \A j \in 1 .. i - 1 : a[j] = s[j]
  <2>1. \A j \in 1 .. i - 1 : s[j] \in S
    BY <1>0, ElementOfSeq
  <2>2. /\ a \in Seq(S) /\ Len(a) = IF 1 <= i - 1 THEN i - 1 - 1 + 1 ELSE 0
        /\ \A j \in 1 .. i - 1 - 1 + 1 : a[j] = s[1 + j - 1]
    BY <2>1, <1>0, SubSeqProperties
  <2> QED BY <2>2, <1>0
<1>2. c \in Seq(S) /\ Len(c) = Len(s) - i + 1 /\ \A j \in 1 .. Len(s) - i + 1 : c[j] = s[i + j - 1]
  <2>1. \A j \in i .. Len(s) : s[j] \in S
    BY <1>0, ElementOfSeq
  <2>2. /\ c \in Seq(S) /\ Len(c) = IF i <= Len(s) THEN Len(s) - i + 1 ELSE 0
        /\ \A j \in 1 .. Len(s) - i + 1 : c[j] = s[i + j - 1]
    BY <2>1, <1>0, SubSeqProperties
  <2> QED BY <2>2, <1>0
<1>3. b \in Seq(S) /\ Len(b) = 1 /\ b[1] = e
  OBVIOUS
<1> HIDE DEF a, b, c
<1>4. /\ a \o b \in Seq(S) /\ Len(a \o b) = i
      /\ \A j \in 1 .. i : (a \o b)[j] = IF j < i THEN s[j] ELSE e
  <2>1. /\ a \o b \in Seq(S) /\ Len(a \o b) = Len(a) + Len(b)
        /\ \A j \in 1 .. Len(a) + Len(b) : (a \o b)[j] = IF j <= Len(a) THEN a[j] ELSE b[j - Len(a)]
    BY <1>1, <1>3, ConcatProperties
  <2> QED BY <2>1, <1>0, <1>1, <1>3
<1> DEFINE d == a \o b
<1> HIDE DEF d
<1>7. d \in Seq(S) /\ Len(d) = i /\ \A j \in 1 .. i : d[j] = IF j < i THEN s[j] ELSE e
  BY <1>4 DEF d
<1>5. /\ d \o c \in Seq(S) /\ Len(d \o c) = Len(d) + Len(c)
      /\ \A j \in 1 .. Len(d) + Len(c) : (d \o c)[j] = IF j <= Len(d) THEN d[j] ELSE c[j - Len(d)]
  BY <1>2, <1>7, ConcatProperties
<1>6. InsertAt(s, i, e) = d \o c
  BY Zenon DEF InsertAt, a, b, c, d
<1>8. Len(d) + Len(c) = Len(s) + 1
  BY <1>7, <1>2, <1>0
<1>9. \A j \in 1 .. i - 1 : (d \o c)[j] = s[j]
  BY <1>0, <1>5, <1>7, <1>8
<1>10. (d \o c)[i] = e
  BY <1>0, <1>5, <1>7, <1>8
<1>11. ASSUME NEW j \in i .. Len(s) PROVE (d \o c)[j + 1] = s[j]
  <2>1. j \in Nat /\ j + 1 \in 1 .. Len(s) + 1 /\ j + 1 > i
    BY <1>0
  <2>2. (d \o c)[j + 1] = c[j + 1 - i] /\ j + 1 - i \in 1 .. Len(s) - i + 1
    BY <2>1, <1>0, <1>5, <1>7, <1>8
  <2>3. c[j + 1 - i] = s[i + (j + 1 - i) - 1] /\ i + (j + 1 - i) - 1 = j
    BY <2>1, <2>2, <1>2, <1>0
  <2> QED BY <2>2, <2>3
<1> QED BY <1>5, <1>6, <1>8, <1>9, <1>10, <1>11 DEF Widened

\* x is s with e in place of its element i.
Changed(x, s, i, e) ==
    Len(x) = Len(s) /\ x[i] = e /\ \A j \in 1 .. Len(s) : j # i => x[j] = s[j]

LEMMA Replaced ==
    ASSUME NEW S, NEW s \in Seq(S), NEW i \in 1 .. Len(s), NEW e \in S
    PROVE  ReplaceAt(s, i, e) \in Seq(S) /\ Changed(ReplaceAt(s, i, e), s, i, e)
BY ExceptSeq DEF ReplaceAt, Changed

-----------------------------------------------------------------------------
(* Route: the separators below a key are the first ones *)

LEMMA Positive == ASSUME NEW k \in Keys PROVE k \in Nat
BY KeysArePositive

LEMMA RouteSplits ==
    ASSUME NEW r, r.seps \in Seq(Keys), Ascends(r.seps), NEW k \in Keys
    PROVE  /\ Route(r, k) \in 1 .. Len(r.seps) + 1
           /\ \A i \in DOMAIN r.seps : r.seps[i] < k <=> i < Route(r, k)
<1> DEFINE s == r.seps
           B == {i \in DOMAIN s : s[i] < k}
           T == {i \in 1 .. Len(s) + 1 : i \notin B}
<1>0. Len(s) \in Nat /\ DOMAIN s = 1 .. Len(s) /\ \A i \in DOMAIN s : s[i] \in Keys
  BY LenProperties, ElementOfSeq
<1>1. T \subseteq Nat /\ Len(s) + 1 \in T
  BY <1>0
<1>2. PICK c \in T : \A y \in T : c <= y
  <2>1. T # {}
    BY <1>1
  <2> QED BY <1>1, <2>1, Least
<1>3. c \in 1 .. Len(s) + 1 /\ c \notin B
  BY <1>2
<1>4. \A i \in DOMAIN s : i \in B <=> i < c
  <2>1. ASSUME NEW i \in DOMAIN s, i < c PROVE i \in B
    <3>1. i \in 1 .. Len(s) + 1 /\ i \in Nat /\ c \in Nat
      BY <1>0, <1>3
    <3>2. i \in T => FALSE
      BY <3>1, <1>2, <2>1
    <3> QED BY <3>1, <3>2
  <2>2. ASSUME NEW i \in B, ~(i < c) PROVE FALSE
    <3>1. i \in DOMAIN s /\ s[i] < k /\ c \in DOMAIN s /\ c <= i
      BY <2>2, <1>0, <1>3
    <3>2. s[c] <= s[i] /\ s[c] \in Nat /\ s[i] \in Nat /\ k \in Nat
      BY <3>1, <1>0, Positive DEF Ascends
    <3>3. s[c] < k
      BY <3>1, <3>2
    <3> QED BY <3>1, <3>3, <1>3
  <2> QED BY <2>1, <2>2
<1>5. B = 1 .. c - 1
  BY <1>0, <1>3, <1>4
<1>6. Cardinality(B) = c - 1
  <2>1. c - 1 \in Int /\ c - 1 >= 0
    BY <1>3, <1>0
  <2> HIDE DEF B
  <2>2. Cardinality(1 .. c - 1) = IF 1 > c - 1 THEN 0 ELSE c - 1 - 1 + 1
    BY <2>1, FS_Interval
  <2> QED BY <2>1, <2>2, <1>5
<1>7. Route(r, k) = c
  <2>1. Route(r, k) = Cardinality(B) + 1
    BY DEF Route
  <2> QED BY <2>1, <1>6, <1>3, <1>0
<1> QED BY <1>3, <1>4, <1>7

\* A key belongs to the kid that it is routed to.
LEMMA RoutePlaces ==
    ASSUME NEW r, r.seps \in Seq(Keys), Ascends(r.seps), NEW k \in Keys
    PROVE  Between(r.seps, Route(r, k), k)
<1> DEFINE m == Route(r, k)
<1>0. Len(r.seps) \in Nat /\ DOMAIN r.seps = 1 .. Len(r.seps) /\ \A i \in DOMAIN r.seps : r.seps[i] \in Nat
  BY LenProperties, ElementOfSeq, Positive
<1>1. m \in 1 .. Len(r.seps) + 1 /\ \A i \in DOMAIN r.seps : r.seps[i] < k <=> i < m
  BY RouteSplits
<1> HIDE DEF m
<1>2. k \in Nat
  BY Positive
<1>3. ASSUME m > 1 PROVE r.seps[m - 1] <= k
  BY <1>0, <1>1, <1>2, <1>3
<1>4. ASSUME m <= Len(r.seps) PROVE k <= r.seps[m]
  BY <1>0, <1>1, <1>2, <1>4
<1> QED BY <1>3, <1>4 DEF Between, m

\* A key that is no separator is routed to the one kid it belongs to.
LEMMA RouteFinds ==
    ASSUME NEW r, r.seps \in Seq(Keys), Ascends(r.seps), NEW k \in Keys,
           NEW j \in 1 .. Len(r.seps) + 1, Between(r.seps, j, k), ~ Separates(r.seps, k)
    PROVE  Route(r, k) = j
<1> DEFINE m == Route(r, k)
<1>0. Len(r.seps) \in Nat /\ DOMAIN r.seps = 1 .. Len(r.seps) /\ \A i \in DOMAIN r.seps : r.seps[i] \in Nat
  BY LenProperties, ElementOfSeq, Positive
<1>1. m \in 1 .. Len(r.seps) + 1 /\ \A i \in DOMAIN r.seps : r.seps[i] < k <=> i < m
  BY RouteSplits
<1> HIDE DEF m
<1>2. k \in Nat /\ \A i \in DOMAIN r.seps : r.seps[i] # k
  BY Positive DEF Separates
<1>3. ASSUME j < m PROVE FALSE
  <2>1. j \in DOMAIN r.seps /\ k <= r.seps[j]
    BY <1>0, <1>1, <1>3 DEF Between
  <2> QED BY <2>1, <1>0, <1>1, <1>2, <1>3
<1>4. ASSUME m < j PROVE FALSE
  <2>1. j - 1 \in DOMAIN r.seps /\ ~(j - 1 < m) /\ j > 1
    BY <1>0, <1>1, <1>4
  <2>2. r.seps[j - 1] <= k
    BY <2>1 DEF Between
  <2> QED BY <2>1, <2>2, <1>0, <1>1, <1>2
<1> QED BY <1>0, <1>1, <1>3, <1>4 DEF m

-----------------------------------------------------------------------------
(* split_root: the halves of a set of keys *)

Below(S, k) == {j \in S : j < k}

LEMMA BelowFinite ==
    ASSUME NEW S, S \subseteq Nat, IsFiniteSet(S), NEW k \in S
    PROVE  Cardinality(Below(S, k)) \in Nat
<1>1. Below(S, k) \in SUBSET S
  BY DEF Below
<1> QED BY <1>1, FS_Subset, FS_CardinalityType

\* The greatest element of a finite set is the one with the fewest above it.
LEMMA Greatest ==
    ASSUME NEW S, S \subseteq Nat, IsFiniteSet(S), S # {}
    PROVE  \E x \in S : \A y \in S : y <= x
<1> DEFINE Above(k) == {j \in S : k < j}
           T == {Cardinality(Above(k)) : k \in S}
<1>1. \A k \in S : IsFiniteSet(Above(k)) /\ Cardinality(Above(k)) \in Nat
  <2> SUFFICES ASSUME NEW k \in S PROVE IsFiniteSet(Above(k)) /\ Cardinality(Above(k)) \in Nat
    OBVIOUS
  <2>1. Above(k) \in SUBSET S
    OBVIOUS
  <2> QED BY <2>1, FS_Subset, FS_CardinalityType
<1>2. PICK n \in T : \A m \in T : n <= m
  <2>1. T \subseteq Nat /\ T # {}
    BY <1>1
  <2> QED BY <2>1, Least
<1>3. PICK x \in S : n = Cardinality(Above(x))
  BY <1>2
<1>4. ASSUME NEW y \in S, x < y PROVE FALSE
  <2>1. Above(y) \in SUBSET Above(x) /\ y \in Above(x) /\ y \notin Above(y)
    <3>1. x \in Nat /\ y \in Nat /\ x < y /\ ~ (y < y)
      BY <1>4
    <3>2. ASSUME NEW z \in Above(y) PROVE z \in Above(x)
      <4>1. z \in S /\ z \in Nat /\ y < z
        OBVIOUS
      <4> QED BY <4>1, <3>1
    <3> QED BY <3>1, <3>2
  <2>2. Cardinality(Above(y)) <= Cardinality(Above(x)) /\ Cardinality(Above(y)) # Cardinality(Above(x))
    BY <2>1, <1>1, FS_Subset
  <2>3. n <= Cardinality(Above(y))
    BY <1>2
  <2> HIDE DEF Above
  <2> QED BY <2>2, <2>3, <1>1, <1>3
<1> QED BY <1>4

LEMMA Halves ==
    ASSUME NEW S, S \subseteq Keys, S # {}
    PROVE  /\ LowerHalf(S) \cup UpperHalf(S) = S
           /\ Separator(S) \in S
           /\ \A k \in LowerHalf(S) : k <= Separator(S)
           /\ \A k \in UpperHalf(S) : Separator(S) <= k
<1>0. S \subseteq Nat /\ IsFiniteSet(S) /\ Cardinality(S) \in Nat
  <2>1. S \in SUBSET Keys
    OBVIOUS
  <2> QED BY <2>1, KeysArePositive, FS_Subset, FS_CardinalityType
<1>1. LowerHalf(S) = {k \in S : Cardinality(Below(S, k)) < Cardinality(S) \div 2}
  BY DEF LowerHalf, Below
<1>2. LowerHalf(S) \subseteq S /\ UpperHalf(S) \subseteq S /\ LowerHalf(S) \cup UpperHalf(S) = S
  BY <1>1 DEF UpperHalf
<1>3. UpperHalf(S) # {}
  <2>1. PICK x \in S : \A y \in S : y <= x
    BY <1>0, Greatest
  <2>2. Below(S, x) = S \ {x}
    <3>1. \A y \in S : y < x <=> y # x
      <4> SUFFICES ASSUME NEW y \in S PROVE y < x <=> y # x
        OBVIOUS
      <4>1. y \in Nat /\ x \in Nat /\ y <= x
        BY <1>0, <2>1
      <4> QED BY <4>1
    <3> QED BY <3>1 DEF Below
  <2>3. Cardinality(Below(S, x)) = Cardinality(S) - 1
    BY <2>2, <1>0, FS_RemoveElement
  <2>4. Cardinality(S) # 0
    BY <1>0, FS_EmptySet
  <2>5. ~ (Cardinality(S) - 1 < Cardinality(S) \div 2)
    BY <2>4, <1>0, SMT
  <2>6. x \notin LowerHalf(S)
    BY <1>1, <2>3, <2>5
  <2> QED BY <2>6 DEF UpperHalf
<1>4. PICK u \in UpperHalf(S) : \A j \in UpperHalf(S) : u <= j
  <2>1. UpperHalf(S) \subseteq Nat
    BY <1>0, <1>2
  <2> QED BY <2>1, <1>3, Least
<1>5. Separator(S) \in UpperHalf(S) /\ \A j \in UpperHalf(S) : Separator(S) <= j
  BY <1>4, Zenon DEF Separator
<1>6. ASSUME NEW k \in LowerHalf(S), NEW v \in UpperHalf(S) PROVE k <= v
  <2>0. k \in S /\ v \in S /\ k \in Nat /\ v \in Nat
    BY <1>0, <1>2
  <2>1. Cardinality(Below(S, k)) < Cardinality(S) \div 2 /\ ~ (Cardinality(Below(S, v)) < Cardinality(S) \div 2)
    BY <1>1, <2>0 DEF UpperHalf
  <2>2. ASSUME v < k PROVE FALSE
    <3>1. Below(S, v) \in SUBSET Below(S, k)
      <4>1. ASSUME NEW j \in Below(S, v) PROVE j \in Below(S, k)
        <5>1. j \in S /\ j \in Nat /\ j < v
          BY <1>0 DEF Below
        <5>2. j < k
          BY <5>1, <2>0, <2>2
        <5> QED BY <5>1, <5>2 DEF Below
      <4> QED BY <4>1
    <3>2. Below(S, k) \in SUBSET S
      BY DEF Below
    <3>3. IsFiniteSet(Below(S, k))
      BY <3>2, <1>0, FS_Subset
    <3>4. Cardinality(Below(S, v)) <= Cardinality(Below(S, k))
      BY <3>1, <3>3, FS_Subset
    <3>5. Cardinality(Below(S, v)) \in Nat /\ Cardinality(Below(S, k)) \in Nat
      BY <2>0, <1>0, BelowFinite, Zenon
    <3>6. Cardinality(S) \div 2 \in Int
      BY <1>0, SMT
    <3> QED BY <3>4, <3>5, <3>6, <2>1
  <2> QED BY <2>0, <2>2
<1>7. \A k \in LowerHalf(S) : k <= Separator(S)
  BY <1>5, <1>6
<1> QED BY <1>2, <1>5, <1>7

-----------------------------------------------------------------------------
(* SplitKid: the other kids keep their separators *)

\* The kids ks: those of rs with n + 1 and n + 2 in place of kid p.
KidsSplit(ks, rs, p, n) ==
    /\ Len(ks) = Len(rs) + 1
    /\ \A j \in 1 .. p - 1 : ks[j] = rs[j]
    /\ ks[p] = n + 1 /\ ks[p + 1] = n + 2
    /\ \A j \in p + 1 .. Len(rs) : ks[j + 1] = rs[j]

LEMMA SplitRoot ==
    ASSUME NEW n \in Nat, NEW r \in [seps : Seq(Keys), kids : Seq(1 .. n), marked : BOOLEAN],
           Len(r.kids) = Len(r.seps) + 1, NEW p \in DOMAIN r.kids, NEW e \in Keys,
           NEW q, q = SplitKid(r, p, e, n)
    PROVE  /\ q \in [seps : Seq(Keys), kids : Seq(1 .. n + 2), marked : BOOLEAN]
           /\ q.marked = r.marked
           /\ Widened(q.seps, r.seps, p, e)
           /\ KidsSplit(q.kids, r.kids, p, n)
<1> DEFINE ss == InsertAt(r.seps, p, e)
           rs == ReplaceAt(r.kids, p, n + 1)
           ks == InsertAt(rs, p + 1, n + 2)
<1>0. /\ r.seps \in Seq(Keys) /\ r.kids \in Seq(1 .. n) /\ r.marked \in BOOLEAN
      /\ Len(r.seps) \in Nat /\ Len(r.kids) \in Nat /\ DOMAIN r.kids = 1 .. Len(r.kids)
  BY LenProperties
<1>1. p \in 1 .. Len(r.kids) /\ p \in 1 .. Len(r.seps) + 1 /\ p \in Nat
  BY <1>0
<1>2. q = [seps |-> ss, kids |-> ks, marked |-> r.marked]
  BY DEF SplitKid
<1>3. ss \in Seq(Keys) /\ Widened(ss, r.seps, p, e)
  BY <1>0, <1>1, Inserted, Zenon
<1>4. r.kids \in Seq(1 .. n + 2) /\ n + 1 \in 1 .. n + 2 /\ n + 2 \in 1 .. n + 2
  <2>1. 1 .. n \subseteq 1 .. n + 2
    OBVIOUS
  <2>2. r.kids \in Seq(1 .. n + 2)
    BY <2>1, <1>0, SeqMonotonic
  <2> QED BY <2>2
<1>16. rs \in Seq(1 .. n + 2) /\ Changed(rs, r.kids, p, n + 1)
  BY <1>1, <1>4, Replaced, Zenon
<1> HIDE DEF rs
<1>5. /\ rs \in Seq(1 .. n + 2) /\ Len(rs) = Len(r.kids) /\ rs[p] = n + 1
      /\ \A j \in 1 .. Len(r.kids) : j # p => rs[j] = r.kids[j]
  BY <1>16 DEF Changed
<1>6. ks \in Seq(1 .. n + 2) /\ Widened(ks, rs, p + 1, n + 2)
  <2>1. p + 1 \in 1 .. Len(rs) + 1
    BY <1>0, <1>1, <1>5
  <2> QED BY <2>1, <1>4, <1>5, Inserted, Zenon
<1> HIDE DEF ks, ss
<1>7. q.seps = ss /\ q.kids = ks /\ q.marked = r.marked
  BY <1>2
<1>8. q \in [seps : Seq(Keys), kids : Seq(1 .. n + 2), marked : BOOLEAN]
  BY <1>0, <1>2, <1>3, <1>6
<1>9. Len(ks) = Len(r.kids) + 1 /\ ks[p + 1] = n + 2
  BY <1>5, <1>6 DEF Widened
<1>10. \A j \in 1 .. p : ks[j] = rs[j]
  BY <1>1, <1>6 DEF Widened
<1>11. \A j \in p + 1 .. Len(r.kids) : ks[j + 1] = rs[j]
  BY <1>5, <1>6 DEF Widened
<1>12. \A j \in 1 .. p - 1 : rs[j] = r.kids[j]
  <2> SUFFICES ASSUME NEW j \in 1 .. p - 1 PROVE rs[j] = r.kids[j]
    OBVIOUS
  <2>1. j \in 1 .. Len(r.kids) /\ j # p
    BY <1>0, <1>1
  <2> QED BY <2>1, <1>5
<1>13. \A j \in p + 1 .. Len(r.kids) : rs[j] = r.kids[j]
  <2> SUFFICES ASSUME NEW j \in p + 1 .. Len(r.kids) PROVE rs[j] = r.kids[j]
    OBVIOUS
  <2>1. j \in 1 .. Len(r.kids) /\ j # p
    BY <1>0, <1>1
  <2> QED BY <2>1, <1>5
<1>14. (\A j \in 1 .. p - 1 : ks[j] = r.kids[j]) /\ ks[p] = n + 1
  <2>1. p \in 1 .. p /\ \A j \in 1 .. p - 1 : j \in 1 .. p
    BY <1>1
  <2> QED BY <2>1, <1>5, <1>10, <1>12, Zenon
<1>15. \A j \in p + 1 .. Len(r.kids) : ks[j + 1] = r.kids[j]
  BY <1>11, <1>13
<1>17. KidsSplit(ks, r.kids, p, n)
  BY <1>9, <1>14, <1>15 DEF KidsSplit
<1> QED BY <1>3, <1>7, <1>8, <1>17

\* What belongs to the kids of the new root.
LEMMA SplitPlaces ==
    ASSUME NEW s, NEW n \in Nat, Len(s) = n, NEW p \in 1 .. n + 1, NEW e \in Nat,
           NEW x, Widened(x, s, p, e), NEW k \in Nat
    PROVE  /\ \A j \in 1 .. p - 1 : Between(s, j, k) => Between(x, j, k)
           /\ \A j \in p + 1 .. n + 1 : Between(s, j, k) => Between(x, j + 1, k)
           /\ Between(s, p, k) /\ k <= e => Between(x, p, k)
           /\ Between(s, p, k) /\ e <= k => Between(x, p + 1, k)
<1>1. /\ p \in Nat /\ p >= 1 /\ p <= n + 1
      /\ Len(x) = n + 1 /\ x[p] = e
      /\ \A j \in 1 .. p - 1 : x[j] = s[j]
      /\ \A j \in p .. n : x[j + 1] = s[j]
  BY DEF Widened
<1>3. ASSUME NEW j \in 1 .. p - 1, Between(s, j, k) PROVE Between(x, j, k)
  <2>0. j \in Nat /\ j <= n
    BY <1>1
  <2>1. j > 1 => x[j - 1] = s[j - 1]
    BY <1>1, <2>0
  <2>2. x[j] = s[j]
    BY <1>1
  <2> QED BY <1>3, <2>0, <2>1, <2>2 DEF Between
<1>4. ASSUME NEW j \in p + 1 .. n + 1, Between(s, j, k) PROVE Between(x, j + 1, k)
  <2>0. j \in Nat /\ j - 1 \in p .. n /\ j > 1
    BY <1>1
  <2>1. x[j - 1 + 1] = s[j - 1] /\ j - 1 + 1 = j /\ j + 1 - 1 = j
    BY <1>1, <2>0
  <2>2. j + 1 <= Len(x) => j <= n /\ x[j + 1] = s[j]
    BY <1>1, <2>0
  <2> QED BY <1>4, <2>0, <2>1, <2>2 DEF Between
<1>5. ASSUME Between(s, p, k), k <= e PROVE Between(x, p, k)
  <2>1. p > 1 => x[p - 1] = s[p - 1]
    BY <1>1
  <2> QED BY <1>1, <1>5, <2>1 DEF Between
<1>6. ASSUME Between(s, p, k), e <= k PROVE Between(x, p + 1, k)
  <2>1. x[p + 1 - 1] = e
    BY <1>1
  <2>2. p + 1 <= Len(x) => p <= n /\ x[p + 1] = s[p]
    BY <1>1
  <2> QED BY <1>6, <2>1, <2>2 DEF Between
<1> QED BY <1>3, <1>4, <1>5, <1>6

LEMMA SplitAscends ==
    ASSUME NEW s \in Seq(Nat), NEW n \in Nat, Len(s) = n, NEW p \in 1 .. n + 1, NEW e \in Nat,
           NEW x \in Seq(Nat), Widened(x, s, p, e), Ascends(s), Between(s, p, e)
    PROVE  Ascends(x)
<1>0. DOMAIN s = 1 .. n /\ \A i \in 1 .. n : s[i] \in Nat
  BY LenProperties, ElementOfSeq
<1>1. /\ p \in Nat /\ p >= 1 /\ p <= n + 1
      /\ Len(x) = n + 1 /\ x[p] = e
      /\ \A j \in 1 .. p - 1 : x[j] = s[j]
      /\ \A j \in p .. n : x[j + 1] = s[j]
  BY DEF Widened
<1>3. DOMAIN x = 1 .. n + 1
  BY <1>1, LenProperties
<1>4. ASSUME NEW i \in 1 .. p - 1 PROVE s[i] <= e
  <2>1. p > 1 /\ p - 1 \in 1 .. n /\ i <= p - 1 /\ i \in 1 .. n
    BY <1>1
  <2>2. s[p - 1] <= e
    BY <2>1 DEF Between
  <2>3. s[i] <= s[p - 1]
    BY <2>1, <1>0 DEF Ascends
  <2>4. s[i] \in Nat /\ s[p - 1] \in Nat
    BY <2>1, <1>0
  <2> QED BY <2>2, <2>3, <2>4
<1>5. ASSUME NEW j \in p .. n PROVE e <= s[j]
  <2>1. p \in 1 .. n /\ p <= n /\ j \in 1 .. n /\ p <= j
    BY <1>1
  <2>2. e <= s[p]
    BY <2>1 DEF Between
  <2>3. s[p] <= s[j]
    BY <2>1, <1>0 DEF Ascends
  <2>4. s[p] \in Nat /\ s[j] \in Nat
    BY <2>1, <1>0
  <2> QED BY <2>2, <2>3, <2>4
<1>6. ASSUME NEW i \in 1 .. n + 1, NEW j \in 1 .. n + 1, i <= j
      PROVE  x[i] <= x[j]
  <2>0. i \in Nat /\ j \in Nat
    OBVIOUS
  <2>1. CASE j < p
    <3>1. i \in 1 .. p - 1 /\ j \in 1 .. p - 1 /\ i \in DOMAIN s /\ j \in DOMAIN s
      BY <2>1, <2>0, <1>0, <1>1, <1>6
    <3> QED BY <3>1, <1>1, <1>6 DEF Ascends
  <2>2. CASE j = p
    <3>1. CASE i = p
      BY <3>1, <2>2, <1>1
    <3>2. CASE i # p
      <4>1. i \in 1 .. p - 1
        BY <3>2, <2>0, <2>2, <1>1, <1>6
      <4> QED BY <4>1, <2>2, <1>1, <1>4
    <3> QED BY <3>1, <3>2
  <2>3. CASE j > p
    <3>1. x[j - 1 + 1] = s[j - 1] /\ j - 1 \in p .. n /\ j - 1 + 1 = j
      BY <2>3, <2>0, <1>1
    <3>2. e <= s[j - 1]
      BY <3>1, <1>5
    <3>3. CASE i < p
      <4>1. i \in 1 .. p - 1 /\ i \in 1 .. n /\ j - 1 \in 1 .. n
        BY <3>1, <3>3, <2>0, <1>1
      <4>2. s[i] <= e /\ x[i] = s[i] /\ s[i] \in Nat /\ s[j - 1] \in Nat
        BY <4>1, <1>0, <1>1, <1>4
      <4> QED BY <3>1, <3>2, <4>2
    <3>4. CASE i = p
      BY <3>1, <3>2, <3>4, <1>1
    <3>5. CASE i > p
      <4>1. x[i - 1 + 1] = s[i - 1] /\ i - 1 \in p .. n /\ i - 1 + 1 = i /\ i - 1 <= j - 1
        BY <3>5, <2>0, <1>1, <1>6
      <4>2. i - 1 \in DOMAIN s /\ j - 1 \in DOMAIN s
        BY <3>1, <4>1, <1>0, <1>1
      <4> QED BY <3>1, <4>1, <4>2 DEF Ascends
    <3> QED BY <3>3, <3>4, <3>5, <2>0, <1>1
  <2> QED BY <2>1, <2>2, <2>3, <2>0, <1>1
<1> QED BY <1>3, <1>6 DEF Ascends

-----------------------------------------------------------------------------
(* What a step does to the bin *)

\* Nothing that a thread has seen of the bin is undone.
Evolves ==
    /\ DOMAIN leaves \subseteq DOMAIN leaves'
    /\ \A i \in DOMAIN leaves :
        /\ leaves[i].keys \subseteq leaves'[i].keys
        /\ leaves[i].list = "closed" => leaves'[i].list = "closed"
    /\ mob # "null" => mob' # "null"
    /\ mob = "model" => mob' = "model"
    /\ root.marked => root' = root
    /\ linked \subseteq linked' /\ deep \subseteq deep'
    /\ \A j \in DOMAIN root'.kids : root'.kids[j] \in DOMAIN leaves =>
        \E i \in DOMAIN root.kids :
            /\ root.kids[i] = root'.kids[j]
            /\ \A k \in Keys : Between(root.seps, i, k) => Between(root'.seps, j, k)

\* Only thread t moves.
Moves(t) ==
    \A u \in Threads \ {t} :
        /\ pc'[u] = pc[u] /\ key'[u] = key[u] /\ seen'[u] = seen[u]
        /\ at'[u] = at[u] /\ was'[u] = was[u]

LEMMA LeafFacts ==
    ASSUME Shared
    PROVE  /\ Len(leaves) \in Nat /\ DOMAIN leaves = 1 .. Len(leaves)
           /\ \A i \in DOMAIN leaves :
                /\ leaves[i] \in LeafType /\ leaves[i].keys \subseteq Keys
                /\ leaves[i].count \in Nat /\ leaves[i].list \in {"open", "freezing", "closed"}
<1>1. Len(leaves) \in Nat /\ DOMAIN leaves = 1 .. Len(leaves) /\ \A i \in DOMAIN leaves : leaves[i] \in LeafType
  BY LenProperties, ElementOfSeq DEF Shared
<1> QED BY <1>1 DEF LeafType

LEMMA LeafChanges ==
    ASSUME Shared, NEW c \in DOMAIN leaves, NEW v \in LeafType, leaves' = [leaves EXCEPT ![c] = v]
    PROVE  /\ leaves' \in Seq(LeafType) /\ Len(leaves') = Len(leaves) /\ DOMAIN leaves' = DOMAIN leaves
           /\ leaves'[c] = v /\ \A i \in DOMAIN leaves : i # c => leaves'[i] = leaves[i]
<1>1. leaves \in Seq(LeafType) /\ c \in 1 .. Len(leaves)
  BY LeafFacts DEF Shared
<1>2. leaves' \in Seq(LeafType) /\ Len(leaves') = Len(leaves)
  BY <1>1, ExceptSeq, Zenon
<1> QED BY <1>1, <1>2

LEMMA RootFacts ==
    ASSUME NEW r \in Roots
    PROVE  /\ r.seps \in Seq(Keys) /\ Len(r.seps) \in Nat /\ DOMAIN r.seps = 1 .. Len(r.seps)
           /\ \A i \in DOMAIN r.seps : r.seps[i] \in Keys
           /\ r.kids \in Seq(DOMAIN leaves) /\ Len(r.kids) \in Nat /\ DOMAIN r.kids = 1 .. Len(r.kids)
           /\ \A i \in DOMAIN r.kids : r.kids[i] \in DOMAIN leaves
           /\ r.marked \in BOOLEAN
<1>1. r.seps \in Seq(Keys) /\ r.kids \in Seq(DOMAIN leaves) /\ r.marked \in BOOLEAN
  BY DEF Roots
<1>2. Len(r.seps) \in Nat /\ DOMAIN r.seps = 1 .. Len(r.seps) /\ \A i \in DOMAIN r.seps : r.seps[i] \in Keys
  BY <1>1, LenProperties, ElementOfSeq
<1>3. /\ Len(r.kids) \in Nat /\ DOMAIN r.kids = 1 .. Len(r.kids)
      /\ \A i \in DOMAIN r.kids : r.kids[i] \in DOMAIN leaves
  BY <1>1, LenProperties, ElementOfSeq
<1> QED BY <1>1, <1>2, <1>3

LEMMA RootsGrow ==
    ASSUME DOMAIN leaves \subseteq DOMAIN leaves', NEW r \in Roots
    PROVE  r \in Roots'
<1>1. r.seps \in Seq(Keys) /\ r.kids \in Seq(DOMAIN leaves) /\ r.marked \in BOOLEAN
      /\ r = [seps |-> r.seps, kids |-> r.kids, marked |-> r.marked]
  BY DEF Roots
<1>2. r.kids \in Seq(DOMAIN leaves')
  BY <1>1, SeqMonotonic
<1> QED BY <1>1, <1>2 DEF Roots

LEMMA ThreadFacts ==
    ASSUME IInv, NEW t \in Threads
    PROVE  /\ ThreadInv(t) /\ Types(t) /\ Inserts(t) /\ Gathers(t) /\ Finds(t)
           /\ pc[t] \in PC /\ key[t] \in Keys \cup {NoKey} /\ seen[t] \in Roots /\ at[t] \in Nat
           /\ pc[t] \in LeafSteps \cup {"findlist", "gathering"} =>
                 at[t] \in DOMAIN seen[t].kids /\ Child(t) \in DOMAIN leaves
<1>1. /\ ThreadInv(t) /\ Types(t) /\ Inserts(t) /\ Gathers(t) /\ Finds(t)
      /\ pc[t] \in PC /\ key[t] \in Keys \cup {NoKey} /\ seen[t] \in Roots /\ at[t] \in Nat
  BY DEF IInv, Arrays, ThreadInv
<1>2. ASSUME pc[t] \in LeafSteps \cup {"findlist", "gathering"} PROVE at[t] \in DOMAIN seen[t].kids
  BY <1>1, <1>2, RootFacts DEF Types, Gathers
<1>3. ASSUME at[t] \in DOMAIN seen[t].kids PROVE Child(t) \in DOMAIN leaves
  BY <1>1, <1>3, RootFacts DEF Child
<1> QED BY <1>1, <1>2, <1>3

LEMMA Others ==
    ASSUME IInv, Evolves, NEW t \in Threads, Moves(t), NEW u \in Threads \ {t}
    PROVE  ThreadInv(u)'
<1>1. pc'[u] = pc[u] /\ key'[u] = key[u] /\ seen'[u] = seen[u] /\ at'[u] = at[u] /\ was'[u] = was[u]
  BY DEF Moves
<1>2. Types(u)'
  BY <1>1, ThreadFacts DEF Types, Evolves, Fits
<1>3. pc[u] \in LeafSteps \cup {"findlist", "gathering"} =>
        /\ Child(u) \in DOMAIN leaves /\ Child(u)' = Child(u)
        /\ leaves[Child(u)].keys \subseteq leaves'[Child(u)].keys
        /\ leaves[Child(u)].list = "closed" => leaves'[Child(u)].list = "closed"
  BY <1>1, ThreadFacts DEF Child, Evolves
<1>4. Inserts(u)'
  <2>1. (pc[u] \in SplitSteps => Len(seen[u].seps) < RootMax)'
    BY <1>1, ThreadFacts DEF Inserts
  <2>2. (pc[u] \in SplitSteps \cup {"counted"} => leaves[Child(u)].keys # {} \/ root.marked)'
    BY <1>1, <1>3, ThreadFacts DEF Inserts, Evolves, LeafSteps, SplitSteps
  <2>3. (pc[u] = "swing" => leaves[Child(u)].list = "closed")'
    BY <1>1, <1>3, ThreadFacts DEF Inserts, LeafSteps
  <2>4. (pc[u] \in {"count", "list"} =>
            \A j \in DOMAIN root.kids : root.kids[j] = Child(u) => Between(root.seps, j, key[u]))'
    <3> SUFFICES ASSUME pc[u] \in {"count", "list"}, NEW j \in DOMAIN root'.kids, root'.kids[j] = Child(u)
                 PROVE  Between(root'.seps, j, key[u])
      BY <1>1, <1>3 DEF LeafSteps
    <3>1. PICK i \in DOMAIN root.kids :
                /\ root.kids[i] = Child(u)
                /\ \A k \in Keys : Between(root.seps, i, k) => Between(root'.seps, j, k)
      BY <1>3 DEF LeafSteps, Evolves
    <3>2. Between(root.seps, i, key[u]) /\ key[u] \in Keys
      BY <3>1, ThreadFacts DEF Inserts, Types
    <3> QED BY <3>1, <3>2
  <2> QED BY <2>1, <2>2, <2>3, <2>4 DEF Inserts
<1>5. Gathers(u)'
  <2> SUFFICES ASSUME pc[u] \in {"gather", "gathering"} PROVE Gathers(u)'
    BY <1>1 DEF Gathers
  <2>1. /\ root.marked /\ seen[u] = root /\ root' = root
        /\ at[u] \in 1 .. Len(seen[u].kids) + 1
        /\ \A i \in DOMAIN seen[u].kids : i < at[u] => leaves[seen[u].kids[i]].list = "closed"
        /\ pc[u] = "gathering" => at[u] <= Len(seen[u].kids)
    BY ThreadFacts DEF Gathers, Evolves
  <2>2. \A i \in DOMAIN seen[u].kids : i < at[u] => leaves'[seen[u].kids[i]].list = "closed"
    BY <2>1, ThreadFacts, RootFacts DEF Evolves
  <2> QED BY <1>1, <2>1, <2>2 DEF Gathers
<1>6. Finds(u)'
  <2>1. (was[u] /\ pc[u] \in FindSteps => key[u] \in linked)'
    BY <1>1, ThreadFacts, Zenon DEF Finds, Evolves
  <2>2. (was[u] /\ pc[u] = "findlist" =>
            key[u] \in leaves[Child(u)].keys \/ key[u] \in deep \/ Separates(seen[u].seps, key[u]))'
    <3> SUFFICES ASSUME was[u], pc[u] = "findlist"
                 PROVE  (key[u] \in leaves[Child(u)].keys \/ key[u] \in deep \/ Separates(seen[u].seps, key[u]))'
      BY <1>1, Zenon
    <3>1. key[u] \in leaves[Child(u)].keys \/ key[u] \in deep \/ Separates(seen[u].seps, key[u])
      BY ThreadFacts, Zenon DEF Finds
    <3> QED BY <1>1, <1>3, <3>1 DEF Evolves, Separates
  <2>3. (was[u] /\ pc[u] = "absent" => key[u] \in deep \/ Separates(seen[u].seps, key[u]))'
    <3> SUFFICES ASSUME was[u], pc[u] = "absent"
                 PROVE  (key[u] \in deep \/ Separates(seen[u].seps, key[u]))'
      BY <1>1, Zenon
    <3>1. key[u] \in deep \/ Separates(seen[u].seps, key[u])
      BY ThreadFacts, Zenon DEF Finds
    <3> QED BY <1>1, <3>1 DEF Evolves, Separates
  <2> QED BY <2>1, <2>2, <2>3 DEF Finds
<1> QED BY <1>2, <1>4, <1>5, <1>6 DEF ThreadInv

LEMMA StepSuffices ==
    ASSUME IInv, NEW t \in Threads, Moves(t), Evolves, Bins', Arrays', CountCovers', ThreadInv(t)'
    PROVE  IInv'
<1>1. ASSUME NEW u \in Threads PROVE ThreadInv(u)'
  BY Others
<1> QED BY <1>1 DEF IInv

-----------------------------------------------------------------------------
(* The parts of a step *)

\* The locals of thread t become p, k, r, a and w.
Locals(t, p, k, r, a, w) ==
    /\ pc' = [pc EXCEPT ![t] = p]
    /\ key' = [key EXCEPT ![t] = k]
    /\ seen' = [seen EXCEPT ![t] = r]
    /\ at' = [at EXCEPT ![t] = a]
    /\ was' = [was EXCEPT ![t] = w]

LEMMA Located ==
    ASSUME IInv, DOMAIN leaves \subseteq DOMAIN leaves', NEW t \in Threads, NEW p \in PC,
           NEW k \in Keys \cup {NoKey}, NEW r \in Roots', NEW a \in Nat, NEW w \in BOOLEAN,
           Locals(t, p, k, r, a, w)
    PROVE  /\ Arrays' /\ Moves(t)
           /\ pc'[t] = p /\ key'[t] = k /\ seen'[t] = r /\ at'[t] = a /\ was'[t] = w
<1>1. pc' \in [Threads -> PC] /\ key' \in [Threads -> Keys \cup {NoKey}] /\ at' \in [Threads -> Nat]
  BY DEF Locals, IInv, Arrays
<1>2. was' \in [Threads -> BOOLEAN]
  BY Zenon DEF Locals, IInv, Arrays
<1>3. seen' \in [Threads -> Roots']
  <2>1. seen \in [Threads -> Roots'] 
    <3>1. seen \in [Threads -> Roots]
      BY DEF IInv, Arrays
    <3> QED BY <3>1, RootsGrow
  <2> QED BY <2>1, Zenon DEF Locals
<1>4. Moves(t)
  BY Zenon DEF Locals, IInv, Arrays, Moves
<1>5. pc'[t] = p /\ key'[t] = k /\ seen'[t] = r /\ at'[t] = a /\ was'[t] = w
  BY Zenon DEF Locals, IInv, Arrays
<1> QED BY <1>1, <1>2, <1>3, <1>4, <1>5 DEF Arrays

\* What a thread leaves alone.
LEMMA SameLocals ==
    ASSUME IInv, NEW t \in Threads
    PROVE  /\ key = [key EXCEPT ![t] = key[t]] /\ seen = [seen EXCEPT ![t] = seen[t]]
           /\ at = [at EXCEPT ![t] = at[t]] /\ was = [was EXCEPT ![t] = was[t]]
           /\ was[t] \in BOOLEAN
<1>1. key = [key EXCEPT ![t] = key[t]]
  BY DEF IInv, Arrays
<1>2. seen = [seen EXCEPT ![t] = seen[t]]
  BY DEF IInv, Arrays
<1>3. at = [at EXCEPT ![t] = at[t]]
  BY DEF IInv, Arrays
<1>4. was = [was EXCEPT ![t] = was[t]]
  BY DEF IInv, Arrays
<1>5. was[t] \in BOOLEAN
  BY Zenon DEF IInv, Arrays
<1> QED BY <1>1, <1>2, <1>3, <1>4, <1>5

LEMMA LocatedSame ==
    ASSUME IInv, UNCHANGED leaves, NEW t \in Threads, NEW p \in PC,
           NEW k \in Keys \cup {NoKey}, NEW r \in Roots, NEW a \in Nat,
           Locals(t, p, k, r, a, was[t])
    PROVE  /\ Arrays' /\ Moves(t)
           /\ pc'[t] = p /\ key'[t] = k /\ seen'[t] = r /\ at'[t] = a /\ was'[t] = was[t]
<1>1. r \in Roots' /\ DOMAIN leaves \subseteq DOMAIN leaves'
  BY DEF Roots
<1>2. was[t] \in BOOLEAN
  BY SameLocals
<1> QED BY <1>1, <1>2, Located

\* The inserts that have linked a key of leaf i, or took a frozen list for
\* success, and have not counted it.
Uncounted(i) == {u \in Threads : pc[u] = "counted" /\ Child(u) = i}

LEMMA UncountedFinite ==
    ASSUME NEW i
    PROVE  IsFiniteSet(Uncounted(i)) /\ Cardinality(Uncounted(i)) \in Nat
<1>1. Uncounted(i) \in SUBSET Threads
  BY DEF Uncounted
<1> QED BY <1>1, StalledAreThreads, FS_Subset, FS_CardinalityType

LEMMA UncountedFiniteNext ==
    ASSUME NEW i
    PROVE  IsFiniteSet(Uncounted(i)') /\ Cardinality(Uncounted(i)') \in Nat
<1>1. Uncounted(i)' \in SUBSET Threads
  BY DEF Uncounted
<1> QED BY <1>1, StalledAreThreads, FS_Subset, FS_CardinalityType

LEMMA KeysFinite ==
    ASSUME NEW S, S \subseteq Keys
    PROVE  IsFiniteSet(S) /\ Cardinality(S) \in Nat
<1>1. S \in SUBSET Keys
  OBVIOUS
<1> QED BY <1>1, KeysArePositive, FS_Subset, FS_CardinalityType

LEMMA CountKept ==
    ASSUME IInv, NEW t \in Threads, Moves(t), pc[t] # "counted", Shared',
           DOMAIN leaves \subseteq DOMAIN leaves',
           \A i \in DOMAIN leaves : leaves'[i].keys = leaves[i].keys /\ leaves'[i].count = leaves[i].count,
           \A i \in DOMAIN leaves' \ DOMAIN leaves : leaves'[i].count = Cardinality(leaves'[i].keys)
    PROVE  CountCovers'
<1> SUFFICES ASSUME NEW i \in DOMAIN leaves'
             PROVE  Cardinality(leaves'[i].keys) <= leaves'[i].count + Cardinality(Uncounted(i)')
  BY DEF CountCovers, Uncounted
<1>1. Cardinality(Uncounted(i)') \in Nat /\ Cardinality(Uncounted(i)) \in Nat
  BY UncountedFinite, UncountedFiniteNext
<1>2. CASE i \in DOMAIN leaves
  <2>1. Uncounted(i) \in SUBSET (Uncounted(i)')
    BY DEF Uncounted, Moves, Child
  <2>2. Cardinality(Uncounted(i)) <= Cardinality(Uncounted(i)')
    BY <2>1, UncountedFiniteNext, FS_Subset
  <2>3. Cardinality(leaves[i].keys) <= leaves[i].count + Cardinality(Uncounted(i))
    BY <1>2 DEF IInv, CountCovers, Uncounted
  <2>4. leaves[i].keys \subseteq Keys /\ leaves[i].count \in Nat
    BY <1>2, LeafFacts DEF IInv, Bins
  <2>5. Cardinality(leaves[i].keys) \in Nat
    BY <2>4, KeysFinite
  <2>6. leaves'[i].keys = leaves[i].keys /\ leaves'[i].count = leaves[i].count
    BY <1>2
  <2> QED BY <2>2, <2>3, <2>4, <2>5, <2>6, <1>1
<1>3. CASE i \notin DOMAIN leaves
  <2>1. leaves'[i].count = Cardinality(leaves'[i].keys)
    BY <1>3
  <2>2. leaves'[i] \in LeafType
    BY LenProperties, ElementOfSeq DEF Shared
  <2>3. leaves'[i].count \in Nat
    BY <2>2 DEF LeafType
  <2> QED BY <2>1, <2>3, <1>1
<1> QED BY <1>2, <1>3

\* A step that leaves the bin alone.
LEMMA SameBin ==
    ASSUME IInv, UNCHANGED <<bin, linked>>, calls' \in 0 .. MaxCalls, told' \subseteq Keys
    PROVE  Bins' /\ Evolves /\ DOMAIN leaves \subseteq DOMAIN leaves'
<1>0. UNCHANGED <<mob, root, leaves, trained, deep, linked>>
  BY DEF bin
<1>1. Shared'
  BY <1>0 DEF IInv, Bins, Shared, Roots
<1>2. Tree' /\ Open' /\ Filled' /\ Trained'
  BY <1>0 DEF IInv, Bins, Tree, Open, Filled, Trained, Fits, Ascends, Between
<1>3. LinkedKept'
  BY <1>0 DEF IInv, Bins, LinkedKept, Held, Ranged
<1>4. Evolves
  BY <1>0 DEF Evolves
<1> QED BY <1>0, <1>1, <1>2, <1>3, <1>4 DEF Bins

LEMMA SameBinCount ==
    ASSUME IInv, NEW t \in Threads, Moves(t), pc[t] # "counted",
           UNCHANGED <<bin, linked>>, calls' \in 0 .. MaxCalls, told' \subseteq Keys
    PROVE  CountCovers'
<1>1. Shared' /\ UNCHANGED leaves
  BY SameBin DEF Bins, bin
<1> QED BY <1>1, CountKept

\* A step of an operation that changes nothing but its thread.
LEMMA LocalStep ==
    ASSUME IInv, NEW t \in Threads, pc[t] # "counted",
           UNCHANGED <<bin, linked>>, calls' \in 0 .. MaxCalls, told' \subseteq Keys,
           Moves(t), Arrays', ThreadInv(t)'
    PROVE  IInv'
BY SameBin, SameBinCount, StepSuffices

\* The list of leaf c is frozen or closed.
LEMMA ListStep ==
    ASSUME IInv, NEW t \in Threads, pc[t] # "counted", NEW c \in DOMAIN leaves,
           NEW x \in {"open", "freezing", "closed"}, leaves' = [leaves EXCEPT ![c].list = x],
           leaves[c].list = "closed" => x = "closed",
           x = "open" => leaves[c].list = "open",
           leaves[c].keys # {} \/ root.marked,
           UNCHANGED <<mob, root, trained, deep, calls, linked, told>>,
           Moves(t), Arrays', ThreadInv(t)'
    PROVE  IInv'
<1>0. Shared /\ Tree /\ Open /\ Filled /\ Trained /\ LinkedKept
  BY DEF IInv, Bins
<1> DEFINE v == [leaves[c] EXCEPT !.list = x]
<1>1. leaves' = [leaves EXCEPT ![c] = v]
  OBVIOUS
<1>2. v \in LeafType /\ v.keys = leaves[c].keys /\ v.count = leaves[c].count /\ v.list = x
  BY <1>0, LeafFacts DEF LeafType
<1> HIDE DEF v
<1>3. /\ leaves' \in Seq(LeafType) /\ Len(leaves') = Len(leaves) /\ DOMAIN leaves' = DOMAIN leaves
      /\ leaves'[c] = v /\ \A i \in DOMAIN leaves : i # c => leaves'[i] = leaves[i]
  BY <1>0, <1>1, <1>2, LeafChanges
<1>4. \A i \in DOMAIN leaves : /\ leaves'[i].keys = leaves[i].keys
                               /\ leaves'[i].count = leaves[i].count
                               /\ i # c => leaves'[i].list = leaves[i].list
  BY <1>2, <1>3
<1>5. Shared'
  BY <1>0, <1>3 DEF Shared, Roots
<1>6. \A j \in DOMAIN root.kids : root.kids[j] \in DOMAIN leaves
  BY <1>0, RootFacts DEF Shared
<1>7. Tree'
  BY <1>0, <1>4, <1>6 DEF Tree, Fits
<1>8. Open'
  BY <1>0, <1>2, <1>3, <1>4 DEF Open
<1>9. Filled'
  BY <1>0, <1>2, <1>3, <1>4 DEF Filled
<1>10. Trained'
  <2>1. mob = "null" => leaves' = <<>> /\ linked' = {} /\ ~ root'.marked
    BY <1>0 DEF Trained
  <2> QED BY <2>1, <1>0, <1>4, <1>6 DEF Trained
<1>11. LinkedKept'
  <2>1. Ranged(root)' = Ranged(root)
    BY <1>4, <1>6 DEF Ranged
  <2> QED BY <2>1, <1>0 DEF LinkedKept, Held
<1>12. Evolves
  BY <1>0, <1>2, <1>3, <1>4 DEF Evolves
<1>13. CountCovers'
  BY <1>3, <1>4, <1>5, CountKept
<1> QED BY <1>5, <1>7, <1>8, <1>9, <1>10, <1>11, <1>12, <1>13, StepSuffices DEF Bins

-----------------------------------------------------------------------------
(* The steps of insert that change only their thread *)

LEMMA CallsStay == IInv => calls \in 0 .. MaxCalls /\ told \subseteq Keys
BY DEF IInv, Bins, Shared

LEMMA CallInsertIInv ==
    ASSUME IInv, NEW t \in Threads, NEW k \in Keys, CallInsert(t, k)
    PROVE  IInv'
<1>1. Locals(t, "mob", k, seen[t], at[t], was[t])
  BY SameLocals DEF Locals, CallInsert, Goto, history
<1>2. /\ Arrays' /\ Moves(t)
      /\ pc'[t] = "mob" /\ key'[t] = k /\ seen'[t] = seen[t] /\ at'[t] = at[t] /\ was'[t] = was[t]
  <2>1. "mob" \in PC /\ UNCHANGED leaves
    BY DEF PC, InsertSteps, bin, CallInsert
  <2> QED BY <1>1, <2>1, LocatedSame, ThreadFacts
<1>3. ThreadInv(t)'
  BY <1>2 DEF ThreadInv, Types, Inserts, Gathers, Finds, NoBin, LeafSteps, SplitSteps, FindSteps
<1>4. calls' \in 0 .. MaxCalls
  BY CallsStay, LimitsAreUsable DEF CallInsert
<1> QED BY <1>2, <1>3, <1>4, LocalStep, CallsStay DEF CallInsert, history

LEMMA DispatchIInv ==
    ASSUME IInv, NEW t \in Threads, pc[t] \in {"mob", "new"}, Dispatch(t, mob),
           UNCHANGED <<bin, local, calls, history>>, pc[t] = "mob" \/ mob # "null"
    PROVE  IInv'
<1>1. PICK p \in {"new", "root", "deep"} :
        p = (CASE mob = "null" -> "new" [] mob = "bin" -> "root" [] mob = "model" -> "deep")
  BY DEF IInv, Bins, Shared
<1>2. Locals(t, p, key[t], seen[t], at[t], was[t])
  BY <1>1, SameLocals DEF Locals, Dispatch, Goto, local, history
<1>3. /\ Arrays' /\ Moves(t)
      /\ pc'[t] = p /\ key'[t] = key[t] /\ seen'[t] = seen[t] /\ at'[t] = at[t] /\ was'[t] = was[t]
  <2>1. p \in PC /\ UNCHANGED leaves
    BY DEF PC, InsertSteps, bin
  <2> QED BY <1>2, <2>1, LocatedSame, ThreadFacts
<1>4. p # "new" => mob # "null"
  BY <1>1
<1>5. p = "deep" => mob = "model"
  BY <1>1 DEF IInv, Bins, Shared
<1>6. ThreadInv(t)'
  BY <1>3, <1>4, <1>5, ThreadFacts
     DEF ThreadInv, Types, Inserts, Gathers, Finds, NoBin, LeafSteps, SplitSteps, FindSteps, bin
<1> QED BY <1>3, <1>6, LocalStep, CallsStay DEF history

LEMMA LoadMobIInv ==
    ASSUME IInv, NEW t \in Threads, LoadMob(t)
    PROVE  IInv'
BY DispatchIInv DEF LoadMob

LEMMA NewBinFailsIInv ==
    ASSUME IInv, NEW t \in Threads, NewBinFails(t)
    PROVE  IInv'
BY DispatchIInv DEF NewBinFails

LEMMA LoadRootIInv ==
    ASSUME IInv, NEW t \in Threads, LoadRoot(t)
    PROVE  IInv'
<1> DEFINE a == Route(root, key[t])
<1>0. /\ pc[t] = "root" /\ ~ root.marked /\ mob # "null" /\ key[t] \in Keys /\ Fits(root)
      /\ root \in Roots /\ Ascends(root.seps)
      /\ \A i, j \in DOMAIN root.kids : root.kids[i] = root.kids[j] => i = j
  BY ThreadFacts DEF LoadRoot, Types, NoBin, IInv, Bins, Shared, Tree
<1>1. a \in Nat /\ a \in DOMAIN root.kids /\ Between(root.seps, a, key[t])
  <2>1. a \in 1 .. Len(root.seps) + 1 /\ Between(root.seps, a, key[t])
    BY <1>0, RootFacts, RouteSplits, RoutePlaces
  <2> QED BY <2>1, <1>0, RootFacts DEF Fits
<1> HIDE DEF a
<1>2. Locals(t, "count", key[t], root, a, was[t])
  BY SameLocals DEF Locals, LoadRoot, Goto, history, a
<1>3. /\ Arrays' /\ Moves(t)
      /\ pc'[t] = "count" /\ key'[t] = key[t] /\ seen'[t] = root /\ at'[t] = a /\ was'[t] = was[t]
  <2>1. "count" \in PC /\ UNCHANGED leaves /\ key[t] \in Keys \cup {NoKey}
    BY <1>0 DEF PC, InsertSteps, bin, LoadRoot
  <2> QED BY <1>0, <1>1, <1>2, <2>1, LocatedSame
<1>4. UNCHANGED <<mob, root, leaves>>
  BY DEF LoadRoot, bin
<1>5. Types(t)'
  BY <1>0, <1>1, <1>3, <1>4 DEF Types, Fits
<1>6. Inserts(t)'
  BY <1>0, <1>1, <1>3, <1>4 DEF Inserts, SplitSteps, Child
<1>7. Gathers(t)' /\ Finds(t)'
  BY <1>3 DEF Gathers, Finds, FindSteps
<1> QED BY <1>0, <1>3, <1>5, <1>6, <1>7, LocalStep, CallsStay DEF LoadRoot, history, ThreadInv

LEMMA LoadMarkedIInv ==
    ASSUME IInv, NEW t \in Threads, LoadMarked(t)
    PROVE  IInv'
<1>0. pc[t] = "root" /\ root.marked /\ mob # "null" /\ key[t] \in Keys /\ root \in Roots
  BY ThreadFacts DEF LoadMarked, Types, NoBin, IInv, Bins, Shared
<1>2. Locals(t, "gather", key[t], root, 1, was[t])
  BY SameLocals DEF Locals, LoadMarked, Goto, history
<1>3. /\ Arrays' /\ Moves(t)
      /\ pc'[t] = "gather" /\ key'[t] = key[t] /\ seen'[t] = root /\ at'[t] = 1 /\ was'[t] = was[t]
  <2>1. "gather" \in PC /\ UNCHANGED leaves /\ key[t] \in Keys \cup {NoKey}
    BY <1>0 DEF PC, InsertSteps, bin, LoadMarked
  <2> QED BY <1>0, <1>2, <2>1, LocatedSame
<1>4. UNCHANGED <<mob, root, leaves>>
  BY DEF LoadMarked, bin
<1>5. Types(t)'
  BY <1>0, <1>3, <1>4 DEF Types, LeafSteps
<1>6. Inserts(t)'
  BY <1>3 DEF Inserts, SplitSteps
<1>7. Gathers(t)'
  BY <1>0, <1>3, <1>4, RootFacts DEF Gathers
<1>8. Finds(t)'
  BY <1>3 DEF Finds, FindSteps
<1> QED BY <1>0, <1>3, <1>5, <1>6, <1>7, <1>8, LocalStep, CallsStay DEF LoadMarked, history, ThreadInv

LEMMA SplitAllowed ==
    ASSUME NEW r \in Roots, Fits(r)
    PROVE  /\ SplitOrMark(r) \in {"collect", "mark"}
           /\ SplitOrMark(r) = "collect" => Len(r.seps) < RootMax
<1>1. Len(r.seps) \in Nat /\ Len(r.kids) = Len(r.seps) + 1
  BY RootFacts DEF Fits
<1> QED BY <1>1, LimitsAreUsable DEF SplitOrMark, IsLeaf

\* A step that leaves its thread in the same leaf.
LEMMA SameLeaf ==
    ASSUME IInv, NEW t \in Threads, pc[t] \in {"count", "list"}, NEW p,
           p \in {"list", "counted", "collect", "mark"}, Goto(t, p),
           pc[t] = "list" => p # "list",
           p = "collect" => Len(seen[t].seps) < RootMax,
           p \in {"collect", "counted"} => leaves[Child(t)].keys # {} \/ root.marked,
           UNCHANGED <<bin, local, calls, history>>
    PROVE  IInv'
<1>1. Locals(t, p, key[t], seen[t], at[t], was[t])
  BY SameLocals DEF Locals, Goto, local, history
<1>2. UNCHANGED <<mob, root, leaves>>
  BY DEF bin
<1>3. /\ Arrays' /\ Moves(t)
      /\ pc'[t] = p /\ key'[t] = key[t] /\ seen'[t] = seen[t] /\ at'[t] = at[t] /\ was'[t] = was[t]
  <2>1. p \in PC
    BY DEF PC, InsertSteps
  <2> QED BY <1>1, <1>2, <2>1, LocatedSame, ThreadFacts
<1>4. Types(t)'
  BY <1>2, <1>3, ThreadFacts DEF Types, NoBin, LeafSteps, Fits
<1>5. Inserts(t)'
  BY <1>2, <1>3, ThreadFacts DEF Inserts, SplitSteps, Child
<1>6. Gathers(t)' /\ Finds(t)'
  BY <1>3 DEF Gathers, Finds, FindSteps
<1> QED BY <1>3, <1>4, <1>5, <1>6, LocalStep, CallsStay DEF history, ThreadInv

LEMMA TestCountIInv ==
    ASSUME IInv, NEW t \in Threads, TestCount(t)
    PROVE  IInv'
<1>1. pc[t] = "count" /\ seen[t] \in Roots /\ Fits(seen[t]) /\ Child(t) \in DOMAIN leaves
  BY ThreadFacts DEF TestCount, Types, LeafSteps
<1>2. CASE leaves[Child(t)].count < ChildMax
  <2>1. Goto(t, "list")
    BY <1>2 DEF TestCount
  <2> QED BY <1>1, <2>1, SameLeaf DEF TestCount
<1>3. CASE ~ (leaves[Child(t)].count < ChildMax)
  <2>1. Goto(t, SplitOrMark(seen[t]))
    BY <1>3 DEF TestCount
  <2>2. leaves[Child(t)].count >= ChildMax
    BY <1>1, <1>3, LeafFacts, LimitsAreUsable DEF IInv, Bins
  <2>3. leaves[Child(t)].keys # {} \/ root.marked
    BY <1>1, <2>2 DEF IInv, Bins, Filled
  <2>4. /\ SplitOrMark(seen[t]) \in {"collect", "mark"}
        /\ SplitOrMark(seen[t]) = "collect" => Len(seen[t].seps) < RootMax
    BY <1>1, SplitAllowed
  <2> QED BY <1>1, <2>1, <2>3, <2>4, SameLeaf DEF TestCount
<1> QED BY <1>2, <1>3

LEMMA ListFrozenIInv ==
    ASSUME IInv, NEW t \in Threads, ListFrozen(t)
    PROVE  IInv'
<1>1. pc[t] = "list" /\ seen[t] \in Roots /\ Fits(seen[t]) /\ Child(t) \in DOMAIN leaves
  BY ThreadFacts DEF ListFrozen, Types, LeafSteps
<1>2. leaves[Child(t)].keys # {} \/ root.marked
  BY <1>1 DEF IInv, Bins, Filled, ListFrozen
<1>3. /\ SplitOrMark(seen[t]) \in {"collect", "mark"}
      /\ SplitOrMark(seen[t]) = "collect" => Len(seen[t].seps) < RootMax
  BY <1>1, SplitAllowed
<1>4. /\ AfterFrozen(seen[t]) \in {"counted", "collect", "mark"}
      /\ AfterFrozen(seen[t]) = "collect" => Len(seen[t].seps) < RootMax
  BY <1>3 DEF AfterFrozen
<1> QED BY <1>1, <1>2, <1>4, SameLeaf DEF ListFrozen

LEMMA NoRootFits == NoRoot \in Roots /\ NoRoot \in Roots'
<1>1. \A S : <<>> \in Seq(S)
  BY EmptySeq
<1> QED BY <1>1 DEF NoRoot, Roots

\* The call ends.
LEMMA LeftFacts ==
    ASSUME IInv, NEW t \in Threads, Leave(t), DOMAIN leaves \subseteq DOMAIN leaves',
           NEW w \in BOOLEAN, was' = [was EXCEPT ![t] = w]
    PROVE  Arrays' /\ Moves(t) /\ pc'[t] = "idle" /\ ThreadInv(t)'
<1>1. Locals(t, "idle", NoKey, NoRoot, 0, w)
  BY DEF Locals, Leave
<1>2. Arrays' /\ Moves(t) /\ pc'[t] = "idle"
  <2>1. "idle" \in PC /\ NoKey \in Keys \cup {NoKey} /\ 0 \in Nat
    BY DEF PC
  <2> QED BY <1>1, <2>1, Located, NoRootFits
<1>3. ThreadInv(t)'
  BY <1>2 DEF ThreadInv, Types, Inserts, Gathers, Finds, NoBin, LeafSteps, SplitSteps, FindSteps
<1> QED BY <1>2, <1>3

LEMMA ListHasKeyIInv ==
    ASSUME IInv, NEW t \in Threads, ListHasKey(t)
    PROVE  IInv'
<1>1. pc[t] = "list" /\ UNCHANGED leaves /\ was' = [was EXCEPT ![t] = was[t]] /\ was[t] \in BOOLEAN
  BY SameLocals DEF ListHasKey, bin
<1>2. Arrays' /\ Moves(t) /\ ThreadInv(t)'
  BY <1>1, LeftFacts DEF ListHasKey
<1>3. told' \subseteq Keys
  BY <1>1, CallsStay, ThreadFacts DEF ListHasKey, Types
<1> QED BY <1>1, <1>2, <1>3, LocalStep, CallsStay DEF ListHasKey

-----------------------------------------------------------------------------
(* The steps of find *)

LEMMA CallFindIInv ==
    ASSUME IInv, NEW t \in Threads, NEW k \in Keys, CallFind(t, k)
    PROVE  IInv'
<1>0. PICK w \in BOOLEAN : was' = [was EXCEPT ![t] = w] /\ (w => k \in linked)
  <2>1. (k \in linked) \in BOOLEAN
    OBVIOUS
  <2>2. was' = [was EXCEPT ![t] = (k \in linked)]
    BY DEF CallFind
  <2> QED BY <2>1, <2>2, Zenon
<1>1. Locals(t, "find", k, seen[t], at[t], w)
  BY <1>0, SameLocals, Zenon DEF Locals, CallFind, Goto
<1>2. /\ Arrays' /\ Moves(t)
      /\ pc'[t] = "find" /\ key'[t] = k /\ seen'[t] = seen[t] /\ at'[t] = at[t] /\ was'[t] = w
  <2>1. "find" \in PC /\ UNCHANGED leaves /\ k \in Keys \cup {NoKey} /\ seen[t] \in Roots' /\ at[t] \in Nat
    BY ThreadFacts DEF PC, FindSteps, bin, CallFind, Roots
  <2> QED BY <1>1, <2>1, Located
<1>3. Types(t)' /\ Inserts(t)' /\ Gathers(t)'
  BY <1>2 DEF Types, Inserts, Gathers, NoBin, LeafSteps, SplitSteps
<1>4. Finds(t)'
  <2>1. linked' = linked
    BY DEF CallFind
  <2> QED BY <1>0, <1>2, <2>1, Zenon DEF Finds
<1>5. calls' \in 0 .. MaxCalls
  BY CallsStay, LimitsAreUsable DEF CallFind
<1> QED BY <1>2, <1>3, <1>4, <1>5, LocalStep, CallsStay DEF CallFind, ThreadInv

\* A find goes on without other locals.
LEMMA FindStepIInv ==
    ASSUME IInv, NEW t \in Threads, pc[t] \in FindSteps,
           NEW p \in {"present", "absent", "findroot", "finddeep"}, Goto(t, p),
           p = "findroot" => mob # "null",
           p = "finddeep" => mob = "model",
           p = "absent" /\ was[t] => key[t] \in deep \/ Separates(seen[t].seps, key[t]),
           UNCHANGED <<bin, local, calls, history>>
    PROVE  IInv'
<1>1. Locals(t, p, key[t], seen[t], at[t], was[t])
  BY SameLocals DEF Locals, Goto, local, history
<1>2. UNCHANGED <<mob, root, leaves, deep, linked>>
  BY DEF bin, history
<1>3. /\ Arrays' /\ Moves(t)
      /\ pc'[t] = p /\ key'[t] = key[t] /\ seen'[t] = seen[t] /\ at'[t] = at[t] /\ was'[t] = was[t]
  <2>1. p \in PC
    BY DEF PC, FindSteps
  <2> QED BY <1>1, <1>2, <2>1, LocatedSame, ThreadFacts
<1>4. Types(t)'
  BY <1>2, <1>3, ThreadFacts DEF Types, NoBin, LeafSteps, FindSteps
<1>5. Inserts(t)' /\ Gathers(t)'
  BY <1>3 DEF Inserts, Gathers, SplitSteps
<1>6. Finds(t)'
  <2>1. was[t] => key[t] \in linked
    BY ThreadFacts, Zenon DEF Finds
  <2>2. p # "findlist"
    OBVIOUS
  <2>3. was[t] /\ p = "absent" => key[t] \in deep \/ Separates(seen[t].seps, key[t])
    BY Zenon
  <2> QED BY <1>2, <1>3, <2>1, <2>2, <2>3, Zenon DEF Finds
<1>7. pc[t] # "counted"
  BY DEF FindSteps
<1> QED BY <1>3, <1>4, <1>5, <1>6, <1>7, LocalStep, CallsStay DEF history, ThreadInv

LEMMA KeyHeld ==
    ASSUME IInv, NEW t \in Threads, was[t], pc[t] \in FindSteps
    PROVE  key[t] \in linked /\ key[t] \in Held /\ key[t] \in Keys
<1>1. key[t] \in linked
  BY ThreadFacts, Zenon DEF Finds
<1>2. linked \subseteq Held /\ linked \subseteq Keys
  BY DEF IInv, Bins, LinkedKept, Shared
<1> QED BY <1>1, <1>2

LEMMA FindMobIInv ==
    ASSUME IInv, NEW t \in Threads, FindMob(t)
    PROVE  IInv'
<1>1. pc[t] \in FindSteps /\ mob \in {"null", "bin", "model"}
  BY DEF FindMob, FindSteps, IInv, Bins, Shared
<1>2. CASE mob = "null"
  <2>1. Goto(t, "absent")
    BY <1>2 DEF FindMob
  <2>2. ~ was[t]
    <3> SUFFICES ASSUME was[t] PROVE FALSE
      BY Zenon
    <3>1. key[t] \in linked
      BY <1>1, KeyHeld
    <3> QED BY <3>1, <1>2 DEF IInv, Bins, Trained
  <2> QED BY <1>1, <1>2, <2>1, <2>2, FindStepIInv DEF FindMob
<1>3. CASE mob = "bin"
  <2>1. Goto(t, "findroot")
    BY <1>3 DEF FindMob
  <2> QED BY <1>1, <1>3, <2>1, FindStepIInv DEF FindMob
<1>4. CASE mob = "model"
  <2>1. Goto(t, "finddeep")
    BY <1>4 DEF FindMob
  <2> QED BY <1>1, <1>4, <2>1, FindStepIInv DEF FindMob
<1> QED BY <1>1, <1>2, <1>3, <1>4

LEMMA FindListIInv ==
    ASSUME IInv, NEW t \in Threads, FindList(t)
    PROVE  IInv'
<1>1. pc[t] = "findlist" /\ pc[t] \in FindSteps
  BY DEF FindList, FindSteps
<1>2. CASE key[t] \in leaves[Child(t)].keys
  <2>1. Goto(t, "present")
    BY <1>2 DEF FindList
  <2> QED BY <1>1, <2>1, FindStepIInv DEF FindList
<1>3. CASE key[t] \notin leaves[Child(t)].keys
  <2>1. Goto(t, "absent")
    BY <1>3 DEF FindList
  <2>2. was[t] => key[t] \in deep \/ Separates(seen[t].seps, key[t])
    BY <1>1, <1>3, ThreadFacts, Zenon DEF Finds
  <2> QED BY <1>1, <2>1, <2>2, FindStepIInv DEF FindList
<1> QED BY <1>2, <1>3

LEMMA FindDeepIInv ==
    ASSUME IInv, NEW t \in Threads, FindDeep(t)
    PROVE  IInv'
<1>1. pc[t] = "finddeep" /\ pc[t] \in FindSteps /\ mob = "model"
  BY ThreadFacts DEF FindDeep, FindSteps, Types
<1>2. CASE Goto(t, "present")
  BY <1>1, <1>2, FindStepIInv DEF FindDeep
<1>3. CASE (\A i \in DOMAIN trained : key[t] \notin trained[i]) /\ Goto(t, "absent")
  <2>1. ASSUME was[t] PROVE key[t] \in deep
    <3>1. key[t] \in Held
      BY <1>1, <2>1, KeyHeld
    <3>2. Held = (UNION {trained[i] : i \in DOMAIN trained}) \cup deep
      BY <1>1 DEF Held
    <3>3. key[t] \in deep \/ \E i \in DOMAIN trained : key[t] \in trained[i]
      BY <3>1, <3>2, Zenon
    <3> QED BY <3>3, <1>3
  <2> QED BY <1>1, <1>3, <2>1, FindStepIInv DEF FindDeep
<1> QED BY <1>2, <1>3 DEF FindDeep

LEMMA ReturnFindIInv ==
    ASSUME IInv, NEW t \in Threads, ReturnFind(t)
    PROVE  IInv'
<1>1. pc[t] # "counted" /\ UNCHANGED <<bin, linked, told, calls>> /\ UNCHANGED leaves
  BY DEF ReturnFind, bin
<1>2. Arrays' /\ Moves(t) /\ ThreadInv(t)'
  BY <1>1, LeftFacts, Zenon DEF ReturnFind
<1> QED BY <1>1, <1>2, LocalStep, CallsStay

\* A key of the bin that is no separator is in the kid it is routed to.
LEMMA HeldRouted ==
    ASSUME IInv, mob # "null", NEW k \in Held, k \in Keys, k \notin deep, ~ Separates(root.seps, k)
    PROVE  k \in leaves[root.kids[Route(root, k)]].keys
<1>0. mob \in {"bin", "model"} /\ root \in Roots /\ Tree /\ Trained /\ Fits(root)
  BY DEF IInv, Bins, Shared, Tree
<1>1. PICK i \in DOMAIN root.kids : k \in leaves[root.kids[i]].keys
  <2>1. CASE mob = "bin"
    <3>1. Held = Ranged(root)
      BY <2>1 DEF Held
    <3> QED BY <3>1, Zenon DEF Ranged
  <2>2. CASE mob = "model"
    <3>1. Held = (UNION {trained[i] : i \in DOMAIN trained}) \cup deep
      BY <2>2 DEF Held
    <3>2. PICK i \in DOMAIN trained : k \in trained[i]
      BY <3>1, Zenon
    <3> QED BY <3>2, <2>2, <1>0 DEF Trained
  <2> QED BY <2>1, <2>2, <1>0
<1>2. Between(root.seps, i, k) /\ Ascends(root.seps)
  BY <1>0, <1>1 DEF Tree
<1>3. root.seps \in Seq(Keys) /\ i \in 1 .. Len(root.seps) + 1
  BY <1>0, RootFacts DEF Fits
<1>4. Route(root, k) = i
  BY <1>2, <1>3, RouteFinds
<1> QED BY <1>1, <1>4

LEMMA FindRootIInv ==
    ASSUME IInv, NEW t \in Threads, FindRoot(t)
    PROVE  IInv'
<1> DEFINE a == Route(root, key[t])
<1>0. /\ pc[t] = "findroot" /\ pc[t] \in FindSteps /\ mob # "null" /\ key[t] \in Keys /\ Fits(root)
      /\ root \in Roots /\ Ascends(root.seps)
  BY ThreadFacts DEF FindRoot, FindSteps, Types, NoBin, IInv, Bins, Shared, Tree
<1>1. a \in Nat /\ a \in DOMAIN root.kids
  <2>1. a \in 1 .. Len(root.seps) + 1
    BY <1>0, RootFacts, RouteSplits
  <2> QED BY <2>1, <1>0, RootFacts DEF Fits
<1>2. was[t] => key[t] \in leaves[root.kids[a]].keys \/ key[t] \in deep \/ Separates(root.seps, key[t])
  BY <1>0, KeyHeld, HeldRouted
<1> HIDE DEF a
<1>3. Locals(t, "findlist", key[t], root, a, was[t])
  BY SameLocals DEF Locals, FindRoot, Goto, history, a
<1>4. /\ Arrays' /\ Moves(t)
      /\ pc'[t] = "findlist" /\ key'[t] = key[t] /\ seen'[t] = root /\ at'[t] = a /\ was'[t] = was[t]
  <2>1. "findlist" \in PC /\ UNCHANGED leaves /\ key[t] \in Keys \cup {NoKey}
    BY <1>0 DEF PC, FindSteps, bin, FindRoot
  <2> QED BY <1>0, <1>1, <1>3, <2>1, LocatedSame
<1>5. UNCHANGED <<mob, root, leaves, deep, linked>>
  BY DEF FindRoot, bin, history
<1>6. Types(t)'
  BY <1>0, <1>1, <1>4, <1>5 DEF Types, LeafSteps
<1>7. Inserts(t)' /\ Gathers(t)'
  BY <1>4 DEF Inserts, Gathers, SplitSteps
<1>8. Finds(t)'
  <2>1. was[t] => key[t] \in linked
    BY <1>0, KeyHeld
  <2>2. Child(t)' = root.kids[a]
    BY <1>4 DEF Child
  <2> QED BY <1>2, <1>4, <1>5, <2>1, <2>2, Zenon DEF Finds
<1> QED BY <1>0, <1>4, <1>6, <1>7, <1>8, LocalStep, CallsStay DEF FindRoot, history, ThreadInv

-----------------------------------------------------------------------------
(* The steps of insert that freeze and close lists *)

\* The thread stays in its leaf, whose list becomes x.
LEMMA CollectBeginIInv ==
    ASSUME IInv, NEW t \in Threads, CollectBegin(t)
    PROVE  IInv'
<1> DEFINE c == Child(t)
<1>0. /\ pc[t] = "collect" /\ c \in DOMAIN leaves /\ (leaves[c].keys # {} \/ root.marked)
      /\ UNCHANGED <<mob, root>>
  BY ThreadFacts DEF CollectBegin, LeafSteps, Inserts, SplitSteps
<1>1. PICK x \in {"open", "freezing", "closed"} : x = IF leaves[c].list = "open" THEN "freezing" ELSE leaves[c].list
  BY <1>0, LeafFacts DEF IInv, Bins
<1>2. leaves' = [leaves EXCEPT ![c].list = x]
  BY <1>1 DEF CollectBegin, Freeze
<1>3. Locals(t, "collecting", key[t], seen[t], at[t], was[t])
  BY SameLocals DEF Locals, CollectBegin, Goto, local, history
<1>4. DOMAIN leaves' = DOMAIN leaves /\ leaves'[c].keys = leaves[c].keys
  BY <1>0, <1>2, LeafFacts DEF IInv, Bins, LeafType
<1>5. /\ Arrays' /\ Moves(t)
      /\ pc'[t] = "collecting" /\ key'[t] = key[t] /\ seen'[t] = seen[t] /\ at'[t] = at[t] /\ was'[t] = was[t]
  <2>1. "collecting" \in PC /\ seen[t] \in Roots'
    BY <1>4, ThreadFacts DEF PC, InsertSteps, Roots
  <2> QED BY <1>3, <1>4, <2>1, Located, ThreadFacts, SameLocals
<1>6. Types(t)'
  BY <1>0, <1>5, ThreadFacts DEF Types, NoBin, LeafSteps, Fits
<1>7. Inserts(t)'
  BY <1>0, <1>4, <1>5, ThreadFacts DEF Inserts, SplitSteps, Child
<1>8. Gathers(t)' /\ Finds(t)'
  BY <1>5 DEF Gathers, Finds, FindSteps
<1> HIDE DEF c
<1> QED BY <1>0, <1>1, <1>2, <1>5, <1>6, <1>7, <1>8, ListStep DEF CollectBegin, history, ThreadInv

LEMMA CollectEndIInv ==
    ASSUME IInv, NEW t \in Threads, CollectEnd(t)
    PROVE  IInv'
<1> DEFINE c == Child(t)
<1>0. /\ pc[t] = "collecting" /\ c \in DOMAIN leaves /\ (leaves[c].keys # {} \/ root.marked)
      /\ UNCHANGED <<mob, root>>
  BY ThreadFacts DEF CollectEnd, LeafSteps, Inserts, SplitSteps
<1>2. leaves' = [leaves EXCEPT ![c].list = "closed"]
  BY DEF CollectEnd
<1>3. Locals(t, "swing", key[t], seen[t], at[t], was[t])
  BY SameLocals DEF Locals, CollectEnd, Goto, local, history
<1>4. DOMAIN leaves' = DOMAIN leaves /\ leaves'[c].keys = leaves[c].keys /\ leaves'[c].list = "closed"
  BY <1>0, <1>2, LeafFacts DEF IInv, Bins, LeafType
<1>5. /\ Arrays' /\ Moves(t)
      /\ pc'[t] = "swing" /\ key'[t] = key[t] /\ seen'[t] = seen[t] /\ at'[t] = at[t] /\ was'[t] = was[t]
  <2>1. "swing" \in PC /\ seen[t] \in Roots'
    BY <1>4, ThreadFacts DEF PC, InsertSteps, Roots
  <2> QED BY <1>3, <1>4, <2>1, Located, ThreadFacts, SameLocals
<1>6. Types(t)'
  BY <1>0, <1>5, ThreadFacts DEF Types, NoBin, LeafSteps, Fits
<1>7. Inserts(t)'
  BY <1>0, <1>4, <1>5, ThreadFacts DEF Inserts, SplitSteps, Child
<1>8. Gathers(t)' /\ Finds(t)'
  BY <1>5 DEF Gathers, Finds, FindSteps
<1> HIDE DEF c
<1> QED BY <1>0, <1>2, <1>5, <1>6, <1>7, <1>8, ListStep DEF CollectEnd, history, ThreadInv

LEMMA GatherBeginIInv ==
    ASSUME IInv, NEW t \in Threads, GatherBegin(t)
    PROVE  IInv'
<1> DEFINE c == Child(t)
<1>0. /\ pc[t] = "gather" /\ root.marked /\ seen[t] = root /\ UNCHANGED <<mob, root>> /\ mob # "null"
      /\ at[t] \in 1 .. Len(seen[t].kids) + 1 /\ at[t] <= Len(seen[t].kids)
      /\ \A i \in DOMAIN seen[t].kids : i < at[t] => leaves[seen[t].kids[i]].list = "closed"
  BY ThreadFacts DEF GatherBegin, Gathers, Types, NoBin
<1>1. c \in DOMAIN leaves
  <2>1. at[t] \in DOMAIN seen[t].kids
    BY <1>0, ThreadFacts, RootFacts
  <2> QED BY <2>1, ThreadFacts, RootFacts DEF Child
<1>2. PICK x \in {"open", "freezing", "closed"} : x = IF leaves[c].list = "open" THEN "freezing" ELSE leaves[c].list
  BY <1>1, LeafFacts DEF IInv, Bins
<1>3. leaves' = [leaves EXCEPT ![c].list = x]
  BY <1>2 DEF GatherBegin, Freeze
<1>4. /\ DOMAIN leaves' = DOMAIN leaves
      /\ \A i \in DOMAIN leaves : leaves[i].list = "closed" => leaves'[i].list = "closed"
  BY <1>1, <1>2, <1>3, LeafFacts DEF IInv, Bins, LeafType
<1>5. Locals(t, "gathering", key[t], seen[t], at[t], was[t])
  BY SameLocals DEF Locals, GatherBegin, Goto, local, history
<1>6. /\ Arrays' /\ Moves(t)
      /\ pc'[t] = "gathering" /\ key'[t] = key[t] /\ seen'[t] = seen[t] /\ at'[t] = at[t] /\ was'[t] = was[t]
  <2>1. "gathering" \in PC /\ seen[t] \in Roots'
    BY <1>4, ThreadFacts DEF PC, InsertSteps, Roots
  <2> QED BY <1>4, <1>5, <2>1, Located, ThreadFacts, SameLocals
<1>7. Types(t)'
  BY <1>0, <1>6, ThreadFacts DEF Types, NoBin, LeafSteps
<1>8. Inserts(t)' /\ Finds(t)'
  BY <1>6 DEF Inserts, Finds, SplitSteps, FindSteps
<1>9. Gathers(t)'
  <2>1. \A i \in DOMAIN seen[t].kids : seen[t].kids[i] \in DOMAIN leaves
    BY ThreadFacts, RootFacts
  <2> QED BY <1>0, <1>4, <1>6, <2>1 DEF Gathers
<1> HIDE DEF c
<1> QED BY <1>0, <1>1, <1>2, <1>3, <1>6, <1>7, <1>8, <1>9, ListStep DEF GatherBegin, history, ThreadInv

LEMMA GatherEndIInv ==
    ASSUME IInv, NEW t \in Threads, GatherEnd(t)
    PROVE  IInv'
<1> DEFINE c == Child(t)
<1>0. /\ pc[t] = "gathering" /\ root.marked /\ seen[t] = root /\ UNCHANGED <<mob, root>> /\ mob # "null"
      /\ at[t] \in 1 .. Len(seen[t].kids) + 1 /\ at[t] <= Len(seen[t].kids) /\ c \in DOMAIN leaves
      /\ \A i \in DOMAIN seen[t].kids : i < at[t] => leaves[seen[t].kids[i]].list = "closed"
  BY ThreadFacts DEF GatherEnd, Gathers, Types, NoBin
<1>3. leaves' = [leaves EXCEPT ![c].list = "closed"]
  BY DEF GatherEnd
<1>4. /\ DOMAIN leaves' = DOMAIN leaves /\ leaves'[c].list = "closed"
      /\ \A i \in DOMAIN leaves : leaves[i].list = "closed" => leaves'[i].list = "closed"
  BY <1>0, <1>3, LeafFacts DEF IInv, Bins, LeafType
<1>5. Locals(t, "gather", key[t], seen[t], at[t] + 1, was[t])
  BY SameLocals DEF Locals, GatherEnd, Goto, history
<1>6. /\ Arrays' /\ Moves(t)
      /\ pc'[t] = "gather" /\ key'[t] = key[t] /\ seen'[t] = seen[t] /\ at'[t] = at[t] + 1 /\ was'[t] = was[t]
  <2>1. "gather" \in PC /\ seen[t] \in Roots' /\ at[t] + 1 \in Nat
    BY <1>4, ThreadFacts DEF PC, InsertSteps, Roots
  <2> QED BY <1>4, <1>5, <2>1, Located, ThreadFacts, SameLocals
<1>7. Types(t)'
  BY <1>0, <1>6, ThreadFacts DEF Types, NoBin, LeafSteps
<1>8. Inserts(t)' /\ Finds(t)'
  BY <1>6 DEF Inserts, Finds, SplitSteps, FindSteps
<1>9. Gathers(t)'
  <2>0. Len(seen[t].kids) \in Nat /\ DOMAIN seen[t].kids = 1 .. Len(seen[t].kids)
    BY ThreadFacts, RootFacts
  <2>1. \A i \in DOMAIN seen[t].kids : seen[t].kids[i] \in DOMAIN leaves
    BY ThreadFacts, RootFacts
  <2>2. \A i \in DOMAIN seen[t].kids : i < at[t] + 1 => leaves'[seen[t].kids[i]].list = "closed"
    <3> SUFFICES ASSUME NEW i \in DOMAIN seen[t].kids, i < at[t] + 1
                 PROVE  leaves'[seen[t].kids[i]].list = "closed"
      OBVIOUS
    <3>1. CASE i = at[t]
      BY <3>1, <1>4 DEF Child
    <3>2. CASE i # at[t]
      <4>1. i < at[t]
        BY <3>2, <2>0, <1>0
      <4> QED BY <4>1, <1>0, <1>4, <2>1
    <3> QED BY <3>1, <3>2
  <2> QED BY <1>0, <1>6, <2>0, <2>2 DEF Gathers
<1> HIDE DEF c
<1> QED BY <1>0, <1>3, <1>6, <1>7, <1>8, <1>9, ListStep DEF GatherEnd, history, ThreadInv

-----------------------------------------------------------------------------
(* The list's insert, and count++ *)

LEMMA ListLinksIInv ==
    ASSUME IInv, NEW t \in Threads, ListLinks(t)
    PROVE  IInv'
<1> DEFINE c == Child(t)
           v == [leaves[c] EXCEPT !.keys = @ \cup {key[t]}]
<1>0. /\ Shared /\ Tree /\ Open /\ Filled /\ Trained /\ LinkedKept
      /\ pc[t] = "list" /\ c \in DOMAIN leaves /\ key[t] \in Keys /\ key[t] \notin leaves[c].keys
      /\ leaves[c].list # "closed" /\ linked' = linked \cup {key[t]}
      /\ UNCHANGED <<mob, root, trained, deep, calls, told>>
      /\ \A j \in DOMAIN root.kids : root.kids[j] = c => Between(root.seps, j, key[t])
  BY ThreadFacts DEF IInv, Bins, ListLinks, LeafSteps, Types, Inserts
<1>1. mob = "bin" /\ \E j \in DOMAIN root.kids : root.kids[j] = c
  BY <1>0 DEF Open
<1>2. v \in LeafType /\ v.keys = leaves[c].keys \cup {key[t]} /\ v.count = leaves[c].count /\ v.list = leaves[c].list
  BY <1>0, LeafFacts DEF LeafType
<1>3. leaves' = [leaves EXCEPT ![c] = v]
  BY DEF ListLinks
<1> HIDE DEF v
<1>4. /\ leaves' \in Seq(LeafType) /\ Len(leaves') = Len(leaves) /\ DOMAIN leaves' = DOMAIN leaves
      /\ leaves'[c] = v /\ \A i \in DOMAIN leaves : i # c => leaves'[i] = leaves[i]
  BY <1>0, <1>2, <1>3, LeafChanges
<1>5. /\ \A i \in DOMAIN leaves : leaves'[i].count = leaves[i].count /\ leaves'[i].list = leaves[i].list
      /\ \A i \in DOMAIN leaves : leaves[i].keys \subseteq leaves'[i].keys
      /\ leaves'[c].keys = leaves[c].keys \cup {key[t]}
      /\ \A i \in DOMAIN leaves : i # c => leaves'[i].keys = leaves[i].keys
  BY <1>0, <1>2, <1>4
<1>6. Shared'
  BY <1>0, <1>4 DEF Shared, Roots
<1>7. \A j \in DOMAIN root.kids : root.kids[j] \in DOMAIN leaves
  BY <1>0, RootFacts DEF Shared
<1>8. Tree'
  <2>1. ASSUME NEW i \in DOMAIN root.kids, NEW k \in leaves'[root.kids[i]].keys
        PROVE  Between(root.seps, i, k)
    <3>1. CASE root.kids[i] = c
      BY <3>1, <1>0, <1>5 DEF Tree
    <3>2. CASE root.kids[i] # c
      BY <3>2, <1>0, <1>5, <1>7 DEF Tree
    <3> QED BY <3>1, <3>2
  <2> QED BY <2>1, <1>0 DEF Tree, Fits
<1>9. Open'
  BY <1>0, <1>1, <1>4, <1>5 DEF Open
<1>10. Filled'
  BY <1>0, <1>4, <1>5 DEF Filled
<1>11. Trained'
  BY <1>0, <1>1 DEF Trained
<1>12. LinkedKept'
  <2>1. Held = Ranged(root) /\ Held' = Ranged(root)'
    BY <1>0, <1>1 DEF Held
  <2>2. ASSUME NEW k \in Ranged(root) PROVE k \in Ranged(root)'
    <3>1. PICK i \in DOMAIN root.kids : k \in leaves[root.kids[i]].keys
      BY Zenon DEF Ranged
    <3>2. k \in leaves'[root.kids[i]].keys /\ i \in DOMAIN root'.kids /\ root'.kids[i] = root.kids[i]
      BY <3>1, <1>0, <1>5, <1>7
    <3> QED BY <3>2 DEF Ranged
  <2>3. key[t] \in Ranged(root)'
    <3>1. PICK i \in DOMAIN root.kids : root.kids[i] = c
      BY <1>1
    <3>2. key[t] \in leaves'[root.kids[i]].keys /\ i \in DOMAIN root'.kids /\ root'.kids[i] = root.kids[i]
      BY <3>1, <1>0, <1>5
    <3> QED BY <3>2 DEF Ranged
  <2> QED BY <2>1, <2>2, <2>3, <1>0 DEF LinkedKept
<1>13. Evolves
  BY <1>0, <1>4, <1>5 DEF Evolves
<1>14. Locals(t, "counted", key[t], seen[t], at[t], was[t])
  BY SameLocals DEF Locals, ListLinks, Goto, local
<1>15. /\ Arrays' /\ Moves(t)
       /\ pc'[t] = "counted" /\ key'[t] = key[t] /\ seen'[t] = seen[t] /\ at'[t] = at[t] /\ was'[t] = was[t]
  <2>1. "counted" \in PC /\ seen[t] \in Roots'
    BY <1>4, ThreadFacts DEF PC, InsertSteps, Roots
  <2>2. key[t] \in Keys \cup {NoKey} /\ at[t] \in Nat /\ was[t] \in BOOLEAN
    BY ThreadFacts, SameLocals
  <2>3. DOMAIN leaves \subseteq DOMAIN leaves'
    BY <1>4
  <2> HIDE DEF c
  <2> QED BY <1>14, <2>1, <2>2, <2>3, Located
<1>16. Types(t)'
  BY <1>0, <1>15, ThreadFacts DEF Types, NoBin, LeafSteps, Fits
<1>17. Inserts(t)'
  BY <1>5, <1>15 DEF Inserts, SplitSteps, Child
<1>18. Gathers(t)' /\ Finds(t)'
  BY <1>15 DEF Gathers, Finds, FindSteps
<1>19. CountCovers'
  <2> SUFFICES ASSUME NEW i \in DOMAIN leaves
               PROVE  Cardinality(leaves'[i].keys) <= leaves'[i].count + Cardinality(Uncounted(i)')
    BY <1>4 DEF CountCovers, Uncounted
  <2>1. /\ IsFiniteSet(Uncounted(i)') /\ IsFiniteSet(Uncounted(i))
        /\ Cardinality(Uncounted(i)') \in Nat /\ Cardinality(Uncounted(i)) \in Nat
    BY UncountedFinite, UncountedFiniteNext
  <2>2. Cardinality(leaves[i].keys) <= leaves[i].count + Cardinality(Uncounted(i))
    BY DEF IInv, CountCovers, Uncounted
  <2>3. leaves[i].keys \subseteq Keys /\ leaves[i].count \in Nat
    BY <1>0, LeafFacts
  <2>4. IsFiniteSet(leaves[i].keys) /\ Cardinality(leaves[i].keys) \in Nat
    BY <2>3, KeysFinite
  <2>5. CASE i = c
    <3>1. Cardinality(leaves'[i].keys) = Cardinality(leaves[i].keys) + 1
      BY <2>4, <2>5, <1>0, <1>5, FS_AddElement
    <3>2. Uncounted(i) \cup {t} \in SUBSET (Uncounted(i)') /\ t \notin Uncounted(i)
      BY <2>5, <1>0, <1>15 DEF Uncounted, Moves, Child
    <3>3. Cardinality(Uncounted(i) \cup {t}) = Cardinality(Uncounted(i)) + 1
      BY <2>1, <3>2, FS_AddElement
    <3>4. Cardinality(Uncounted(i) \cup {t}) <= Cardinality(Uncounted(i)')
      BY <2>1, <3>2, FS_Subset
    <3>5. leaves'[i].count = leaves[i].count
      BY <1>5
    <3> QED BY <2>1, <2>2, <2>3, <2>4, <3>1, <3>3, <3>4, <3>5
  <2>6. CASE i # c
    <3>1. Uncounted(i) \in SUBSET (Uncounted(i)')
      BY <1>0, <1>15 DEF Uncounted, Moves, Child
    <3>2. Cardinality(Uncounted(i)) <= Cardinality(Uncounted(i)')
      BY <2>1, <3>1, FS_Subset
    <3>3. leaves'[i].count = leaves[i].count /\ leaves'[i].keys = leaves[i].keys
      BY <2>6, <1>5
    <3> QED BY <2>1, <2>2, <2>3, <2>4, <3>2, <3>3
  <2> QED BY <2>5, <2>6
<1> QED BY <1>6, <1>8, <1>9, <1>10, <1>11, <1>12, <1>13, <1>15, <1>16, <1>17, <1>18, <1>19, StepSuffices
        DEF Bins, ThreadInv

LEMMA CountUpIInv ==
    ASSUME IInv, NEW t \in Threads, CountUp(t)
    PROVE  IInv'
<1> DEFINE c == Child(t)
           v == [leaves[c] EXCEPT !.count = @ + 1]
<1>0. /\ Shared /\ Tree /\ Open /\ Filled /\ Trained /\ LinkedKept
      /\ pc[t] = "counted" /\ c \in DOMAIN leaves /\ key[t] \in Keys
      /\ told' = told \cup {key[t]}
      /\ UNCHANGED <<mob, root, trained, deep, calls, linked, was>>
      /\ (leaves[c].keys # {} \/ root.marked)
  BY ThreadFacts DEF IInv, Bins, CountUp, LeafSteps, Types, Inserts
<1>2. v \in LeafType /\ v.keys = leaves[c].keys /\ v.count = leaves[c].count + 1 /\ v.list = leaves[c].list
  BY <1>0, LeafFacts DEF LeafType
<1>3. leaves' = [leaves EXCEPT ![c] = v]
  BY DEF CountUp
<1> HIDE DEF v
<1>4. /\ leaves' \in Seq(LeafType) /\ Len(leaves') = Len(leaves) /\ DOMAIN leaves' = DOMAIN leaves
      /\ leaves'[c] = v /\ \A i \in DOMAIN leaves : i # c => leaves'[i] = leaves[i]
  BY <1>0, <1>2, <1>3, LeafChanges
<1>5. /\ \A i \in DOMAIN leaves : leaves'[i].keys = leaves[i].keys /\ leaves'[i].list = leaves[i].list
      /\ leaves'[c].count = leaves[c].count + 1
      /\ \A i \in DOMAIN leaves : i # c => leaves'[i].count = leaves[i].count
  BY <1>0, <1>2, <1>4
<1>6. Shared'
  BY <1>0, <1>4 DEF Shared, Roots
<1>7. \A j \in DOMAIN root.kids : root.kids[j] \in DOMAIN leaves
  BY <1>0, RootFacts DEF Shared
<1>8. Tree'
  BY <1>0, <1>5, <1>7 DEF Tree, Fits
<1>9. Open'
  BY <1>0, <1>4, <1>5 DEF Open
<1>10. Filled'
  BY <1>0, <1>4, <1>5 DEF Filled
<1>11. Trained'
  <2>1. mob = "null" => leaves' = <<>> /\ linked' = {} /\ ~ root'.marked
    BY <1>0 DEF Trained
  <2> QED BY <2>1, <1>0, <1>5, <1>7 DEF Trained
<1>12. LinkedKept'
  <2>1. Ranged(root)' = Ranged(root)
    BY <1>0, <1>5, <1>7 DEF Ranged
  <2> QED BY <2>1, <1>0 DEF LinkedKept, Held
<1>13. Evolves
  BY <1>0, <1>4, <1>5 DEF Evolves
<1>14. Arrays' /\ Moves(t) /\ ThreadInv(t)' /\ pc'[t] = "idle"
  BY <1>0, <1>4, SameLocals, LeftFacts DEF CountUp
<1>15. CountCovers'
  <2> SUFFICES ASSUME NEW i \in DOMAIN leaves
               PROVE  Cardinality(leaves'[i].keys) <= leaves'[i].count + Cardinality(Uncounted(i)')
    BY <1>4 DEF CountCovers, Uncounted
  <2>1. /\ IsFiniteSet(Uncounted(i)') /\ IsFiniteSet(Uncounted(i))
        /\ Cardinality(Uncounted(i)') \in Nat /\ Cardinality(Uncounted(i)) \in Nat
    BY UncountedFinite, UncountedFiniteNext
  <2>2. Cardinality(leaves[i].keys) <= leaves[i].count + Cardinality(Uncounted(i))
    BY DEF IInv, CountCovers, Uncounted
  <2>3. leaves[i].keys \subseteq Keys /\ leaves[i].count \in Nat
    BY <1>0, LeafFacts
  <2>4. Cardinality(leaves[i].keys) \in Nat
    BY <2>3, KeysFinite
  <2>5. CASE i = c
    <3>1. leaves'[i].count = leaves[i].count + 1 /\ leaves'[i].keys = leaves[i].keys
      BY <2>5, <1>0, <1>5
    <3>2. Uncounted(i) \ {t} \in SUBSET (Uncounted(i)') /\ t \in Uncounted(i)
      BY <2>5, <1>0, <1>14 DEF Uncounted, Moves, Child
    <3>3. Cardinality(Uncounted(i) \ {t}) = Cardinality(Uncounted(i)) - 1
      BY <2>1, <3>2, FS_RemoveElement
    <3>4. Cardinality(Uncounted(i) \ {t}) <= Cardinality(Uncounted(i)')
      BY <2>1, <3>2, FS_Subset
    <3> QED BY <2>1, <2>2, <2>3, <2>4, <3>1, <3>3, <3>4
  <2>6. CASE i # c
    <3>1. Uncounted(i) \in SUBSET (Uncounted(i)')
      BY <2>6, <1>0, <1>14 DEF Uncounted, Moves, Child
    <3>2. Cardinality(Uncounted(i)) <= Cardinality(Uncounted(i)')
      BY <2>1, <3>1, FS_Subset
    <3>3. leaves'[i].count = leaves[i].count /\ leaves'[i].keys = leaves[i].keys
      BY <2>6, <1>5
    <3> QED BY <2>1, <2>2, <2>3, <2>4, <3>2, <3>3
  <2> QED BY <2>5, <2>6
<1> QED BY <1>6, <1>8, <1>9, <1>10, <1>11, <1>12, <1>13, <1>14, <1>15, StepSuffices DEF Bins

-----------------------------------------------------------------------------
(* split_root and the compare-and-swap of the root *)

\* The thread starts again.
LEMMA RetryFacts ==
    ASSUME IInv, NEW t \in Threads, pc[t] \notin NoBin, Retry(t), UNCHANGED <<key, was>>,
           DOMAIN leaves \subseteq DOMAIN leaves', mob' = mob
    PROVE  Arrays' /\ Moves(t) /\ ThreadInv(t)'
<1>1. Locals(t, "root", key[t], NoRoot, 0, was[t])
  BY SameLocals DEF Locals, Retry, Goto
<1>2. key[t] \in Keys /\ mob # "null" /\ key[t] \in Keys \cup {NoKey} /\ was[t] \in BOOLEAN
  BY ThreadFacts, SameLocals DEF Types, NoBin
<1>3. Arrays' /\ Moves(t) /\ pc'[t] = "root" /\ key'[t] = key[t]
  <2>1. "root" \in PC /\ 0 \in Nat
    BY DEF PC, InsertSteps
  <2> QED BY <1>1, <1>2, <2>1, Located, NoRootFits
<1>4. ThreadInv(t)'
  BY <1>2, <1>3 DEF ThreadInv, Types, Inserts, Gathers, Finds, NoBin, LeafSteps, SplitSteps, FindSteps
<1> QED BY <1>3, <1>4

\* Where the kids ks of the new root come from.
KidsFrom(ks, rs, p, n) ==
    /\ DOMAIN ks = 1 .. Len(rs) + 1
    /\ \A j \in DOMAIN ks :
        \/ j \in 1 .. p - 1 /\ j \in DOMAIN rs /\ ks[j] = rs[j]
        \/ j = p /\ ks[j] = n + 1
        \/ j = p + 1 /\ ks[j] = n + 2
        \/ j - 1 \in p + 1 .. Len(rs) /\ j - 1 \in DOMAIN rs /\ ks[j] = rs[j - 1]

LEMMA SplitKids ==
    ASSUME NEW n \in Nat, NEW r \in [seps : Seq(Keys), kids : Seq(1 .. n), marked : BOOLEAN],
           Len(r.kids) = Len(r.seps) + 1, NEW p \in DOMAIN r.kids, NEW e \in Keys,
           NEW q, q = SplitKid(r, p, e, n)
    PROVE  KidsFrom(q.kids, r.kids, p, n)
<1>0. /\ r.kids \in Seq(1 .. n) /\ Len(r.kids) \in Nat /\ DOMAIN r.kids = 1 .. Len(r.kids)
  BY LenProperties
<1> DEFINE m == Len(r.kids)
<1>1. /\ q.kids \in Seq(1 .. n + 2) /\ Len(q.kids) = m + 1
      /\ \A j \in 1 .. p - 1 : q.kids[j] = r.kids[j]
      /\ q.kids[p] = n + 1 /\ q.kids[p + 1] = n + 2
      /\ \A j \in p + 1 .. m : q.kids[j + 1] = r.kids[j]
  <2>1. q \in [seps : Seq(Keys), kids : Seq(1 .. n + 2), marked : BOOLEAN]
    BY SplitRoot
  <2>2. q.kids \in Seq(1 .. n + 2)
    BY <2>1
  <2>3. /\ Len(q.kids) = Len(r.kids) + 1
        /\ \A j \in 1 .. p - 1 : q.kids[j] = r.kids[j]
        /\ q.kids[p] = n + 1 /\ q.kids[p + 1] = n + 2
        /\ \A j \in p + 1 .. Len(r.kids) : q.kids[j + 1] = r.kids[j]
    <3>1. KidsSplit(q.kids, r.kids, p, n)
      BY SplitRoot
    <3> QED BY <3>1, Zenon DEF KidsSplit
  <2> QED BY <2>2, <2>3
<1>2. DOMAIN q.kids = 1 .. m + 1 /\ m \in Nat /\ p \in 1 .. m /\ DOMAIN r.kids = 1 .. m
  BY <1>0, <1>1, LenProperties
<1> HIDE DEF m
<1>3. ASSUME NEW j \in 1 .. m + 1
      PROVE  \/ j \in 1 .. p - 1 /\ j \in DOMAIN r.kids /\ q.kids[j] = r.kids[j]
             \/ j = p /\ q.kids[j] = n + 1
             \/ j = p + 1 /\ q.kids[j] = n + 2
             \/ j - 1 \in p + 1 .. m /\ j - 1 \in DOMAIN r.kids /\ q.kids[j] = r.kids[j - 1]
  <2>1. CASE j < p
    <3>1. j \in 1 .. p - 1 /\ j \in DOMAIN r.kids
      BY <2>1, <1>2
    <3> QED BY <3>1, <1>1
  <2>2. CASE j = p \/ j = p + 1
    BY <2>2, <1>1
  <2>3. CASE j > p + 1
    <3>1. j - 1 \in p + 1 .. m /\ j - 1 \in DOMAIN r.kids /\ j - 1 + 1 = j
      BY <2>3, <1>2
    <3>2. q.kids[j - 1 + 1] = r.kids[j - 1]
      BY <3>1, <1>1
    <3> QED BY <3>1, <3>2
  <2> QED BY <2>1, <2>2, <2>3, <1>2
<1> QED BY <1>2, <1>3 DEF m, KidsFrom

\* The leaves after a split.
LEMMA SplitLeaves ==
    ASSUME Shared, NEW v \in LeafType, NEW w \in LeafType, leaves' = leaves \o <<v, w>>
    PROVE  /\ leaves' \in Seq(LeafType) /\ DOMAIN leaves' = 1 .. Len(leaves) + 2
           /\ DOMAIN leaves \subseteq DOMAIN leaves'
           /\ \A i \in DOMAIN leaves : leaves'[i] = leaves[i]
           /\ leaves'[Len(leaves) + 1] = v /\ leaves'[Len(leaves) + 2] = w
           /\ \A i \in DOMAIN leaves' \ DOMAIN leaves : i = Len(leaves) + 1 \/ i = Len(leaves) + 2
<1> DEFINE n == Len(leaves)
           vw == <<v, w>>
<1>1. leaves \in Seq(LeafType) /\ n \in Nat /\ DOMAIN leaves = 1 .. n
  BY LeafFacts DEF Shared
<1>2. vw \in Seq(LeafType) /\ Len(vw) = 2 /\ vw[1] = v /\ vw[2] = w
  OBVIOUS
<1> HIDE DEF vw
<1>3. /\ leaves \o vw \in Seq(LeafType) /\ Len(leaves \o vw) = Len(leaves) + Len(vw)
      /\ \A i \in 1 .. Len(leaves) + Len(vw) : (leaves \o vw)[i] =
                     IF i <= Len(leaves) THEN leaves[i] ELSE vw[i - Len(leaves)]
  BY <1>1, <1>2, ConcatProperties
<1>4. leaves' = leaves \o vw
  BY DEF vw
<1> HIDE DEF n
<1>5. /\ leaves' \in Seq(LeafType) /\ Len(leaves') = n + 2
      /\ \A i \in 1 .. n + 2 : leaves'[i] = IF i <= n THEN leaves[i] ELSE vw[i - n]
  BY <1>2, <1>3, <1>4 DEF n
<1>6. DOMAIN leaves' = 1 .. n + 2
  BY <1>5, LenProperties
<1>7. \A i \in 1 .. n : leaves'[i] = leaves[i]
  BY <1>1, <1>5
<1>12. ASSUME NEW j \in 1 .. 2, NEW i, i = n + j
       PROVE  leaves'[i] = vw[j]
  <2>1. i \in 1 .. n + 2 /\ ~(i <= n) /\ i - n = j
    BY <1>1, <1>12
  <2>2. leaves'[i] = vw[i - n]
    BY <2>1, <1>5
  <2> QED BY <2>1, <2>2
<1>8. leaves'[n + 1] = v
  <2>1. 1 \in 1 .. 2
    OBVIOUS
  <2>2. leaves'[n + 1] = vw[1]
    BY <2>1, <1>12, Zenon
  <2> QED BY <2>2, <1>2
<1>9. leaves'[n + 2] = w
  <2>1. 2 \in 1 .. 2
    OBVIOUS
  <2>2. leaves'[n + 2] = vw[2]
    BY <2>1, <1>12, Zenon
  <2> QED BY <2>2, <1>2
<1>10. \A i \in 1 .. n + 2 : i \notin 1 .. n => i = n + 1 \/ i = n + 2
  BY <1>1
<1>11. 1 .. n \subseteq 1 .. n + 2
  BY <1>1
<1> QED BY <1>1, <1>5, <1>6, <1>7, <1>8, <1>9, <1>10, <1>11 DEF n

LEMMA HalfLeaf ==
    ASSUME NEW S, S \subseteq Keys
    PROVE  /\ Leaf(S, Cardinality(S)) \in LeafType
           /\ Leaf(S, Cardinality(S)).keys = S /\ Leaf(S, Cardinality(S)).list = "open"
           /\ Leaf(S, Cardinality(S)).count = Cardinality(S)
           /\ Cardinality(S) >= ChildMax => S # {}
<1>1. Cardinality(S) \in Nat /\ (S = {} => Cardinality(S) = 0)
  BY KeysFinite, FS_EmptySet
<1> QED BY <1>1, LimitsAreUsable DEF Leaf, LeafType

LEMMA SplitIInv ==
    ASSUME IInv, NEW t \in Threads, Swing(t), root = seen[t]
    PROVE  IInv'
<1> DEFINE p == at[t]
           n == Len(leaves)
           S == leaves[Child(t)].keys
           L == LowerHalf(S)
           U == UpperHalf(S)
           e == Separator(S)
<1>0. /\ Shared /\ Tree /\ Open /\ Filled /\ Trained /\ LinkedKept
      /\ pc[t] = "swing" /\ Child(t) \in DOMAIN leaves /\ Child(t) = root.kids[p]
      /\ p \in DOMAIN root.kids /\ ~ root.marked /\ Fits(root) /\ Len(root.seps) < RootMax
      /\ S # {} /\ leaves[Child(t)].list = "closed" /\ mob = "bin"
      /\ UNCHANGED <<mob, trained, deep, key, calls, linked, told, was>> /\ Retry(t)
      /\ n \in Nat /\ DOMAIN leaves = 1 .. n /\ S \subseteq Keys /\ root \in Roots
      /\ \A i \in DOMAIN leaves : leaves[i].keys \subseteq Keys
  <2>1. /\ Shared /\ Tree /\ Open /\ Filled /\ Trained /\ LinkedKept
        /\ pc[t] = "swing" /\ Child(t) \in DOMAIN leaves /\ Child(t) = root.kids[p]
        /\ p \in DOMAIN root.kids /\ ~ root.marked /\ Fits(root) /\ Len(root.seps) < RootMax
        /\ S # {} /\ leaves[Child(t)].list = "closed" /\ mob # "null"
    BY ThreadFacts DEF IInv, Bins, Swing, LeafSteps, SplitSteps, Types, NoBin, Inserts, Child
  <2>2. mob = "bin"
    BY <2>1 DEF Shared, Trained
  <2>3. UNCHANGED <<mob, trained, deep, key, calls, linked, told, was>> /\ Retry(t)
    BY DEF Swing, history
  <2>4. /\ n \in Nat /\ DOMAIN leaves = 1 .. n /\ S \subseteq Keys
        /\ \A i \in DOMAIN leaves : leaves[i].keys \subseteq Keys
    BY <2>1, LeafFacts
  <2> QED BY <2>1, <2>2, <2>3, <2>4 DEF Shared
<1>1. L \cup U = S /\ e \in S /\ (\A k \in L : k <= e) /\ (\A k \in U : e <= k)
  BY <1>0, Halves
<1>2. root' = SplitKid(root, p, e, n) /\ leaves' = leaves \o <<Leaf(L, Cardinality(L)), Leaf(U, Cardinality(U))>>
  BY DEF Swing
<1> HIDE DEF p, S, L, U, e
<1>3. L \subseteq Keys /\ U \subseteq Keys /\ e \in Keys
  BY <1>0, <1>1
<1>4. /\ leaves' \in Seq(LeafType) /\ DOMAIN leaves' = 1 .. n + 2
      /\ DOMAIN leaves \subseteq DOMAIN leaves'
      /\ \A i \in DOMAIN leaves : leaves'[i] = leaves[i]
      /\ \A i \in DOMAIN leaves' \ DOMAIN leaves : i = n + 1 \/ i = n + 2
      /\ leaves'[n + 1] = Leaf(L, Cardinality(L)) /\ leaves'[n + 2] = Leaf(U, Cardinality(U))
  BY <1>0, <1>2, <1>3, HalfLeaf, SplitLeaves
<1>5. /\ leaves'[n + 1].keys = L /\ leaves'[n + 1].list = "open" /\ leaves'[n + 1].count = Cardinality(L)
      /\ leaves'[n + 2].keys = U /\ leaves'[n + 2].list = "open" /\ leaves'[n + 2].count = Cardinality(U)
      /\ (Cardinality(L) >= ChildMax => L # {}) /\ (Cardinality(U) >= ChildMax => U # {})
  BY <1>3, <1>4, HalfLeaf
<1>6. root \in [seps : Seq(Keys), kids : Seq(1 .. n), marked : BOOLEAN] /\ Len(root.kids) = Len(root.seps) + 1
  BY <1>0 DEF Roots, Fits
<1> HIDE DEF n
<1>7. /\ root' \in [seps : Seq(Keys), kids : Seq(1 .. n + 2), marked : BOOLEAN]
      /\ root'.marked = root.marked
      /\ Widened(root'.seps, root.seps, p, e)
      /\ Len(root'.kids) = Len(root.kids) + 1
      /\ \A j \in 1 .. p - 1 : root'.kids[j] = root.kids[j]
      /\ root'.kids[p] = n + 1 /\ root'.kids[p + 1] = n + 2
      /\ \A j \in p + 1 .. Len(root.kids) : root'.kids[j + 1] = root.kids[j]
  <2>0. n \in Nat
    BY <1>0 DEF n
  <2>1. /\ root' \in [seps : Seq(Keys), kids : Seq(1 .. n + 2), marked : BOOLEAN]
        /\ root'.marked = root.marked
        /\ Widened(root'.seps, root.seps, p, e)
        /\ KidsSplit(root'.kids, root.kids, p, n)
    <3>1. /\ root \in [seps : Seq(Keys), kids : Seq(1 .. n), marked : BOOLEAN]
          /\ Len(root.kids) = Len(root.seps) + 1 /\ p \in DOMAIN root.kids /\ e \in Keys
          /\ root' = SplitKid(root, p, e, n)
      BY <1>0, <1>2, <1>3, <1>6
    <3>2. root' \in [seps : Seq(Keys), kids : Seq(1 .. n + 2), marked : BOOLEAN]
      BY <2>0, <3>1, SplitRoot
    <3>3. root'.marked = root.marked
      BY <3>1 DEF SplitKid
    <3>4. Widened(root'.seps, root.seps, p, e)
      BY <2>0, <3>1, SplitRoot
    <3>5. KidsSplit(root'.kids, root.kids, p, n)
      BY <2>0, <3>1, SplitRoot
    <3> QED BY <3>2, <3>3, <3>4, <3>5
  <2> QED BY <2>1, Zenon DEF KidsSplit
<1>8. /\ DOMAIN root'.kids = 1 .. Len(root.kids) + 1
      /\ \A j \in DOMAIN root'.kids :
            \/ j \in 1 .. p - 1 /\ j \in DOMAIN root.kids /\ root'.kids[j] = root.kids[j]
            \/ j = p /\ root'.kids[j] = n + 1
            \/ j = p + 1 /\ root'.kids[j] = n + 2
            \/ j - 1 \in p + 1 .. Len(root.kids) /\ j - 1 \in DOMAIN root.kids /\ root'.kids[j] = root.kids[j - 1]
  <2>0. n \in Nat
    BY <1>0 DEF n
  <2>1. KidsFrom(root'.kids, root.kids, p, n)
    BY <2>0, <1>0, <1>2, <1>3, <1>6, SplitKids
  <2> QED BY <2>1, Zenon DEF KidsFrom
<1>9. /\ Len(root.seps) \in Nat /\ Len(root.kids) = Len(root.seps) + 1 /\ DOMAIN root.kids = 1 .. Len(root.kids)
      /\ p \in 1 .. Len(root.seps) + 1 /\ p \in Nat
      /\ \A j \in DOMAIN root.kids : root.kids[j] \in 1 .. n
  <2>1. Len(root.seps) \in Nat /\ DOMAIN root.kids = 1 .. Len(root.kids) /\ \A j \in DOMAIN root.kids : root.kids[j] \in 1 .. n
    BY <1>0, RootFacts
  <2> QED BY <2>1, <1>0, <1>6
<1>10. ASSUME NEW k \in Keys
       PROVE  /\ \A j \in 1 .. p - 1 : Between(root.seps, j, k) => Between(root'.seps, j, k)
              /\ \A j \in p + 1 .. Len(root.kids) : Between(root.seps, j, k) => Between(root'.seps, j + 1, k)
              /\ Between(root.seps, p, k) /\ k <= e => Between(root'.seps, p, k)
              /\ Between(root.seps, p, k) /\ e <= k => Between(root'.seps, p + 1, k)
  <2> DEFINE m == Len(root.seps)
  <2>1. /\ k \in Nat /\ e \in Nat /\ m \in Nat /\ p \in 1 .. m + 1 /\ Len(root.kids) = m + 1
        /\ Widened(root'.seps, root.seps, p, e)
    BY <1>3, <1>7, <1>9, Positive
  <2>2. Len(root.seps) = m
    OBVIOUS
  <2> HIDE DEF m
  <2>3. /\ \A j \in 1 .. p - 1 : Between(root.seps, j, k) => Between(root'.seps, j, k)
        /\ \A j \in p + 1 .. m + 1 : Between(root.seps, j, k) => Between(root'.seps, j + 1, k)
        /\ Between(root.seps, p, k) /\ k <= e => Between(root'.seps, p, k)
        /\ Between(root.seps, p, k) /\ e <= k => Between(root'.seps, p + 1, k)
    BY <2>1, <2>2, SplitPlaces, Zenon
  <2> QED BY <2>1, <2>3, Zenon
<1>11. Shared'
  <2>1. root' \in Roots'
    BY <1>4, <1>7 DEF Roots
  <2> QED BY <2>1, <1>0, <1>4 DEF Shared
<1>12. Evolves
  <2>1. ASSUME NEW j \in DOMAIN root'.kids, root'.kids[j] \in DOMAIN leaves
        PROVE  \E i \in DOMAIN root.kids :
                  /\ root.kids[i] = root'.kids[j]
                  /\ \A k \in Keys : Between(root.seps, i, k) => Between(root'.seps, j, k)
    <3>0. root'.kids[j] # n + 1 /\ root'.kids[j] # n + 2
      BY <2>1, <1>0 DEF n
    <3>1. CASE j \in 1 .. p - 1 /\ j \in DOMAIN root.kids /\ root'.kids[j] = root.kids[j]
      BY <3>1, <1>10
    <3>2. CASE j - 1 \in p + 1 .. Len(root.kids) /\ j - 1 \in DOMAIN root.kids /\ root'.kids[j] = root.kids[j - 1]
      <4>1. j - 1 + 1 = j
        BY <3>2, <1>8
      <4>2. \A k \in Keys : Between(root.seps, j - 1, k) => Between(root'.seps, j - 1 + 1, k)
        BY <3>2, <1>10
      <4> QED BY <3>2, <4>1, <4>2
    <3> QED BY <3>0, <3>1, <3>2, <1>8
  <2> QED BY <2>1, <1>0, <1>4 DEF Evolves
<1>13. Tree'
  <2>1. Fits(root')
    <3>1. Len(root'.seps) = Len(root.seps) + 1
      BY <1>7 DEF Widened
    <3> QED BY <3>1, <1>0, <1>7, <1>9, LimitsAreUsable DEF Fits
  <2>2. Ascends(root'.seps)
    <3>1. root.seps \in Seq(Nat) /\ root'.seps \in Seq(Nat)
      <4>1. root.seps \in Seq(Keys) /\ root'.seps \in Seq(Keys) /\ Keys \subseteq Nat
        BY <1>6, <1>7, KeysArePositive
      <4> QED BY <4>1, SeqMonotonic
    <3>2. Between(root.seps, p, e) /\ Ascends(root.seps) /\ e \in Nat
      BY <1>0, <1>1, <1>3, Positive DEF Tree, S
    <3> QED BY <3>1, <3>2, <1>7, <1>9, SplitAscends
  <2>3. ASSUME NEW i \in DOMAIN root'.kids, NEW j \in DOMAIN root'.kids, root'.kids[i] = root'.kids[j]
        PROVE  i = j
    <3>0. n \in Nat /\ i \in Int /\ j \in Int
      BY <1>0, <1>8, <1>9
    <3>1. CASE i \in 1 .. p - 1 /\ i \in DOMAIN root.kids /\ root'.kids[i] = root.kids[i]
      <4>1. root.kids[i] \in 1 .. n /\ root'.kids[j] # n + 1 /\ root'.kids[j] # n + 2
        <5>1. root.kids[i] \in 1 .. n /\ root'.kids[j] = root.kids[i]
          BY <3>1, <2>3, <1>9
        <5> QED BY <5>1, <3>0
      <4>2. CASE j \in 1 .. p - 1 /\ j \in DOMAIN root.kids /\ root'.kids[j] = root.kids[j]
        BY <4>2, <3>1, <2>3, <1>0 DEF Tree
      <4>3. CASE j - 1 \in p + 1 .. Len(root.kids) /\ j - 1 \in DOMAIN root.kids /\ root'.kids[j] = root.kids[j - 1]
        <5>1. i = j - 1
          BY <4>3, <3>1, <2>3, <1>0 DEF Tree
        <5> QED BY <5>1, <4>3, <3>1, <1>9
      <4> QED BY <4>1, <4>2, <4>3, <1>8
    <3>2. CASE i = p /\ root'.kids[i] = n + 1
      <4>1. root'.kids[j] = n + 1 /\ n + 1 # n + 2 /\ n + 1 \notin 1 .. n
        BY <3>0, <3>2, <2>3
      <4> QED BY <4>1, <3>2, <1>8, <1>9
    <3>3. CASE i = p + 1 /\ root'.kids[i] = n + 2
      <4>1. root'.kids[j] = n + 2 /\ n + 1 # n + 2 /\ n + 2 \notin 1 .. n
        BY <3>0, <3>3, <2>3
      <4> QED BY <4>1, <3>3, <1>8, <1>9
    <3>4. CASE i - 1 \in p + 1 .. Len(root.kids) /\ i - 1 \in DOMAIN root.kids /\ root'.kids[i] = root.kids[i - 1]
      <4>1. root.kids[i - 1] \in 1 .. n /\ root'.kids[j] # n + 1 /\ root'.kids[j] # n + 2
        <5>1. root.kids[i - 1] \in 1 .. n /\ root'.kids[j] = root.kids[i - 1]
          BY <3>4, <2>3, <1>9
        <5> QED BY <5>1, <3>0
      <4>2. CASE j \in 1 .. p - 1 /\ j \in DOMAIN root.kids /\ root'.kids[j] = root.kids[j]
        <5>1. i - 1 = j
          BY <4>2, <3>4, <2>3, <1>0 DEF Tree
        <5> QED BY <5>1, <4>2, <3>4, <1>9
      <4>3. CASE j - 1 \in p + 1 .. Len(root.kids) /\ j - 1 \in DOMAIN root.kids /\ root'.kids[j] = root.kids[j - 1]
        <5>1. i - 1 = j - 1
          BY <4>3, <3>4, <2>3, <1>0 DEF Tree
        <5> QED BY <5>1, <3>0
      <4> QED BY <4>1, <4>2, <4>3, <1>8
    <3> QED BY <3>1, <3>2, <3>3, <3>4, <1>8
  <2>4. ASSUME NEW j \in DOMAIN root'.kids, NEW k \in leaves'[root'.kids[j]].keys
        PROVE  Between(root'.seps, j, k)
    <3>1. CASE j \in 1 .. p - 1 /\ j \in DOMAIN root.kids /\ root'.kids[j] = root.kids[j]
      <4>1. k \in leaves[root.kids[j]].keys /\ k \in Keys
        BY <3>1, <2>4, <1>0, <1>4, <1>9
      <4> QED BY <4>1, <3>1, <1>0, <1>10 DEF Tree
    <3>2. CASE j = p /\ root'.kids[j] = n + 1
      <4>1. k \in L /\ k \in S /\ k \in Keys /\ k <= e
        BY <3>2, <2>4, <1>0, <1>1, <1>5
      <4>2. Between(root.seps, p, k)
        BY <4>1, <1>0 DEF Tree, S
      <4> QED BY <4>1, <4>2, <3>2, <1>10
    <3>3. CASE j = p + 1 /\ root'.kids[j] = n + 2
      <4>1. k \in U /\ k \in S /\ k \in Keys /\ e <= k
        BY <3>3, <2>4, <1>0, <1>1, <1>5
      <4>2. Between(root.seps, p, k)
        BY <4>1, <1>0 DEF Tree, S
      <4> QED BY <4>1, <4>2, <3>3, <1>10
    <3>4. CASE j - 1 \in p + 1 .. Len(root.kids) /\ j - 1 \in DOMAIN root.kids /\ root'.kids[j] = root.kids[j - 1]
      <4>1. k \in leaves[root.kids[j - 1]].keys /\ k \in Keys
        BY <3>4, <2>4, <1>0, <1>4, <1>9
      <4>2. Between(root.seps, j - 1, k)
        BY <4>1, <3>4, <1>0 DEF Tree
      <4>3. Between(root'.seps, j - 1 + 1, k) /\ j - 1 + 1 = j
        BY <4>1, <4>2, <3>4, <1>8, <1>10
      <4> QED BY <4>3
    <3> QED BY <3>1, <3>2, <3>3, <3>4, <1>8
  <2> QED BY <2>1, <2>2, <2>3, <2>4 DEF Tree
\* Every kid but the one that is split is a kid of the new root.
<1>14. ASSUME NEW i \in DOMAIN root.kids, i # p
       PROVE  \E j \in DOMAIN root'.kids : root'.kids[j] = root.kids[i]
  <2>1. CASE i < p
    <3>1. i \in 1 .. p - 1 /\ i \in DOMAIN root'.kids
      BY <2>1, <1>8, <1>9
    <3> QED BY <3>1, <1>7
  <2>2. CASE i > p
    <3>1. i \in p + 1 .. Len(root.kids) /\ i + 1 \in DOMAIN root'.kids
      BY <2>2, <1>8, <1>9
    <3> QED BY <3>1, <1>7
  <2> QED BY <2>1, <2>2, <1>9, <1>14
<1>15. p \in DOMAIN root'.kids /\ p + 1 \in DOMAIN root'.kids
  BY <1>8, <1>9
<1>16. Open'
  <2> SUFFICES ASSUME NEW i \in DOMAIN leaves', leaves'[i].list # "closed"
               PROVE  \E j \in DOMAIN root'.kids : root'.kids[j] = i
    BY <1>0 DEF Open
  <2>1. CASE i \in DOMAIN leaves
    <3>1. leaves[i].list # "closed"
      BY <2>1, <1>4
    <3>2. PICK j \in DOMAIN root.kids : root.kids[j] = i
      BY <2>1, <3>1, <1>0 DEF Open
    <3>3. j # p
      BY <3>1, <3>2, <1>0
    <3> QED BY <3>2, <3>3, <1>14
  <2>2. CASE i \notin DOMAIN leaves
    BY <2>2, <1>4, <1>7, <1>15
  <2> QED BY <2>1, <2>2
<1>17. Filled'
  <2> SUFFICES ASSUME NEW i \in DOMAIN leaves', leaves'[i].list # "open" \/ leaves'[i].count >= ChildMax
               PROVE  leaves'[i].keys # {} \/ root'.marked
    BY DEF Filled
  <2>1. CASE i \in DOMAIN leaves
    BY <2>1, <1>0, <1>4, <1>7 DEF Filled
  <2>2. CASE i \notin DOMAIN leaves
    BY <2>2, <1>4, <1>5
  <2> QED BY <2>1, <2>2
<1>18. Trained'
  BY <1>0 DEF Trained
<1>19. LinkedKept'
  <2>1. Held = Ranged(root) /\ Held' = Ranged(root)'
    BY <1>0 DEF Held
  <2>2. ASSUME NEW k \in Ranged(root) PROVE k \in Ranged(root)'
    <3>1. PICK i \in DOMAIN root.kids : k \in leaves[root.kids[i]].keys
      BY Zenon DEF Ranged
    <3>2. PICK j \in DOMAIN root'.kids : k \in leaves'[root'.kids[j]].keys
      <4>1. CASE i # p
        <5>1. PICK j \in DOMAIN root'.kids : root'.kids[j] = root.kids[i]
          BY <4>1, <1>14
        <5>2. root.kids[i] \in DOMAIN leaves
          BY <1>0, RootFacts
        <5> QED BY <5>1, <5>2, <3>1, <1>4
      <4>2. CASE i = p
        <5>1. k \in L \/ k \in U
          BY <4>2, <3>1, <1>0, <1>1 DEF S
        <5> QED BY <5>1, <1>5, <1>7, <1>15
      <4> QED BY <4>1, <4>2
    <3> QED BY <3>2 DEF Ranged
  <2> QED BY <2>1, <2>2, <1>0 DEF LinkedKept
<1>20. Arrays' /\ Moves(t) /\ ThreadInv(t)'
  BY <1>0, <1>4, RetryFacts DEF NoBin
<1>21. CountCovers'
  BY <1>0, <1>4, <1>5, <1>11, <1>20, CountKept
<1> QED BY <1>11, <1>12, <1>13, <1>16, <1>17, <1>18, <1>19, <1>20, <1>21, StepSuffices DEF Bins

LEMMA SwingIInv ==
    ASSUME IInv, NEW t \in Threads, Swing(t)
    PROVE  IInv'
<1>1. CASE root = seen[t]
  BY <1>1, SplitIInv
<1>2. CASE root # seen[t]
  <2>1. pc[t] = "swing" /\ Retry(t) /\ UNCHANGED <<bin, key, calls, linked, told, was>>
    BY <1>2 DEF Swing, bin, history
  <2>2. UNCHANGED <<mob, leaves>>
    BY <2>1 DEF bin
  <2>3. Arrays' /\ Moves(t) /\ ThreadInv(t)'
    BY <2>1, <2>2, RetryFacts DEF NoBin
  <2> QED BY <2>1, <2>3, LocalStep, CallsStay
<1> QED BY <1>1, <1>2

LEMMA MarkRootIInv ==
    ASSUME IInv, NEW t \in Threads, MarkRoot(t)
    PROVE  IInv'
<1>0. /\ Shared /\ Tree /\ Open /\ Filled /\ Trained /\ LinkedKept
      /\ pc[t] = "mark" /\ ~ seen[t].marked /\ mob # "null"
      /\ UNCHANGED <<mob, leaves, trained, deep, key, calls, linked, told, was>> /\ Retry(t)
  BY ThreadFacts DEF IInv, Bins, MarkRoot, LeafSteps, Types, NoBin, history
<1>1. Arrays' /\ Moves(t) /\ ThreadInv(t)'
  BY <1>0, RetryFacts DEF NoBin
<1>2. CASE root # seen[t]
  <2>1. UNCHANGED <<bin, linked>>
    BY <1>0, <1>2 DEF MarkRoot, bin
  <2> QED BY <1>0, <1>1, <2>1, LocalStep, CallsStay
<1>3. CASE root = seen[t]
  <2>1. ~ root.marked /\ root' = [root EXCEPT !.marked = TRUE] /\ root \in Roots
    BY <1>0, <1>3 DEF MarkRoot, Shared
  <2>2. root' \in Roots /\ root'.seps = root.seps /\ root'.kids = root.kids /\ root'.marked
    BY <2>1 DEF Roots
  <2>3. Shared'
    BY <1>0, <2>2 DEF Shared, Roots
  <2>4. Tree' /\ Open' /\ Filled'
    BY <1>0, <2>2 DEF Tree, Open, Filled, Fits
  <2>5. mob # "model"
    BY <1>0, <2>1 DEF Trained
  <2>6. Trained'
    BY <1>0, <2>5 DEF Trained
  <2>7. LinkedKept'
    BY <1>0, <2>2 DEF LinkedKept, Held, Ranged
  <2>8. Evolves
    BY <1>0, <2>1, <2>2 DEF Evolves
  <2>9. CountCovers'
    BY <1>0, <1>1, <2>3, CountKept
  <2> QED BY <1>1, <2>3, <2>4, <2>6, <2>7, <2>8, <2>9, StepSuffices DEF Bins
<1> QED BY <1>2, <1>3

-----------------------------------------------------------------------------
(* The first bin, the model in its place, and the inserts below the model *)

LEMMA NewBinIInv ==
    ASSUME IInv, NEW t \in Threads, NewBin(t)
    PROVE  IInv'
<1>0. /\ Shared /\ Tree /\ Open /\ Filled /\ Trained /\ LinkedKept
      /\ pc[t] = "new" /\ mob = "null" /\ mob' = "bin" /\ key[t] \in Keys
      /\ UNCHANGED <<trained, deep, key, seen, at, calls, linked, told, was>>
  BY ThreadFacts DEF IInv, Bins, NewBin, Types, local, history
<1>1. PICK m \in FirstCount : leaves' = <<Leaf({}, m)>>
  BY DEF NewBin
<1> DEFINE v == Leaf({}, m)
<1>2. v \in LeafType /\ v.keys = {} /\ v.count = m /\ v.list = "open" /\ m \in Nat /\ ~ (m >= ChildMax)
  BY LimitsAreUsable DEF Leaf, LeafType, FirstCount
<1> HIDE DEF v
<1>3. leaves' = <<v>>
  BY <1>1 DEF v
<1>4. /\ leaves = <<>> /\ linked = {} /\ trained = <<>> /\ DOMAIN leaves = {}
      /\ leaves' \in Seq(LeafType) /\ DOMAIN leaves' = {1} /\ leaves'[1] = v
  BY <1>0, <1>2, <1>3 DEF Trained
<1>5. /\ root'.seps = <<>> /\ root'.kids = <<1>> /\ root'.marked = FALSE
      /\ root' = [seps |-> <<>>, kids |-> <<1>>, marked |-> FALSE]
  BY DEF NewBin
<1>6. /\ DOMAIN root'.kids = {1} /\ root'.kids[1] = 1 /\ Len(root'.kids) = 1
      /\ DOMAIN root'.seps = {} /\ Len(root'.seps) = 0
  BY <1>5
<1>7. Shared'
  <2>1. root' \in Roots'
    <3>1. <<1>> \in Seq(DOMAIN leaves') /\ <<>> \in Seq(Keys)
      BY <1>4, EmptySeq
    <3> QED BY <3>1, <1>5 DEF Roots
  <2> QED BY <2>1, <1>0, <1>4 DEF Shared
<1>8. Tree'
  <2>1. Fits(root')
    BY <1>6, LimitsAreUsable DEF Fits
  <2> QED BY <2>1, <1>2, <1>4, <1>6 DEF Tree, Ascends
<1>9. Open'
  BY <1>0, <1>4, <1>6 DEF Open
<1>10. Filled'
  BY <1>2, <1>4 DEF Filled
<1>11. Trained'
  BY <1>0, <1>4 DEF Trained
<1>12. LinkedKept'
  BY <1>0, <1>4 DEF LinkedKept
<1>13. Evolves
  <2>1. ~ root.marked
    BY <1>0 DEF Trained
  <2> QED BY <2>1, <1>0, <1>4 DEF Evolves
<1>14. Locals(t, "root", key[t], seen[t], at[t], was[t])
  BY <1>0, SameLocals DEF Locals, NewBin, Goto
<1>15. /\ Arrays' /\ Moves(t) /\ pc'[t] = "root" /\ key'[t] = key[t]
  <2>1. "root" \in PC /\ DOMAIN leaves \subseteq DOMAIN leaves'
    BY <1>4 DEF PC, InsertSteps
  <2>2. seen[t] \in Roots'
    BY <2>1, ThreadFacts, RootsGrow
  <2> QED BY <1>14, <2>1, <2>2, Located, ThreadFacts, SameLocals
<1>16. ThreadInv(t)'
  BY <1>0, <1>15 DEF ThreadInv, Types, Inserts, Gathers, Finds, NoBin, LeafSteps, SplitSteps, FindSteps
<1>17. CountCovers'
  <2> SUFFICES ASSUME NEW i \in DOMAIN leaves'
               PROVE  Cardinality(leaves'[i].keys) <= leaves'[i].count + Cardinality(Uncounted(i)')
    BY DEF CountCovers, Uncounted
  <2>1. Cardinality(leaves'[i].keys) = 0 /\ leaves'[i].count \in Nat
    BY <1>2, <1>4, FS_EmptySet
  <2>2. Cardinality(Uncounted(i)') \in Nat
    BY UncountedFiniteNext
  <2> QED BY <2>1, <2>2
<1> QED BY <1>7, <1>8, <1>9, <1>10, <1>11, <1>12, <1>13, <1>15, <1>16, <1>17, StepSuffices DEF Bins

\* Every leaf of a marked root whose kids are all closed is closed.
LEMMA SwapModelIInv ==
    ASSUME IInv, NEW t \in Threads, SwapModel(t)
    PROVE  IInv'
<1>0. /\ Shared /\ Tree /\ Open /\ Filled /\ Trained /\ LinkedKept
      /\ pc[t] = "gather" /\ mob \in {"bin", "model"} /\ key[t] \in Keys
      /\ root.marked /\ seen[t] = root /\ at[t] > Len(seen[t].kids) /\ root \in Roots
      /\ \A i \in DOMAIN root.kids : i < at[t] => leaves[root.kids[i]].list = "closed"
      /\ UNCHANGED <<root, leaves, deep, key, seen, at, calls, linked, told, was>>
  BY ThreadFacts DEF IInv, Bins, SwapModel, Types, Gathers, NoBin, Shared, local, history
<1>1. mob' = "model"
  BY <1>0 DEF SwapModel
<1>2. /\ DOMAIN trained' = DOMAIN root.kids
      /\ \A i \in DOMAIN root.kids : trained'[i] = leaves[root.kids[i]].keys
      /\ trained' \in Seq(SUBSET Keys)
  <2>1. CASE mob = "bin"
    <3>1. trained' = [i \in DOMAIN root.kids |-> leaves[root.kids[i]].keys]
      BY <2>1, <1>0 DEF SwapModel
    <3>2. \A i \in DOMAIN root.kids : leaves[root.kids[i]].keys \in SUBSET Keys
      BY <1>0, RootFacts, LeafFacts
    <3>3. DOMAIN root.kids = 1 .. Len(root.kids) /\ Len(root.kids) \in Nat
      BY <1>0, RootFacts
    <3>4. [i \in 1 .. Len(root.kids) |-> leaves[root.kids[i]].keys] \in Seq(SUBSET Keys)
      BY <3>2, <3>3, IsASeq
    <3> QED BY <3>1, <3>3, <3>4
  <2>2. CASE mob = "model"
    BY <2>2, <1>0 DEF SwapModel, Trained, Shared
  <2> QED BY <2>1, <2>2, <1>0
<1>3. \A i \in DOMAIN leaves : leaves[i].list = "closed"
  <2> SUFFICES ASSUME NEW i \in DOMAIN leaves, leaves[i].list # "closed" PROVE FALSE
    OBVIOUS
  <2>1. PICK j \in DOMAIN root.kids : root.kids[j] = i
    BY <1>0 DEF Open
  <2>2. j < at[t]
    BY <1>0, ThreadFacts, RootFacts
  <2> QED BY <2>1, <2>2, <1>0
<1>4. Shared'
  BY <1>0, <1>1, <1>2 DEF Shared, Roots
<1>5. Tree' /\ Filled'
  BY <1>0 DEF Tree, Filled, Fits
<1>6. Open'
  BY <1>0, <1>3 DEF Open
<1>7. Trained'
  BY <1>0, <1>1, <1>2 DEF Trained
<1>8. LinkedKept'
  <2>1. Held' = (UNION {trained'[i] : i \in DOMAIN trained'}) \cup deep'
    BY <1>1 DEF Held
  <2>2. ASSUME NEW k \in Held PROVE k \in Held'
    <3>1. CASE mob = "bin"
      <4>1. Held = Ranged(root)
        BY <3>1 DEF Held
      <4>2. PICK i \in DOMAIN root.kids : k \in leaves[root.kids[i]].keys
        BY <4>1, Zenon DEF Ranged
      <4>3. i \in DOMAIN trained' /\ k \in trained'[i]
        BY <4>2, <1>2
      <4> QED BY <4>3, <2>1
    <3>2. CASE mob = "model"
      <4>1. UNCHANGED <<mob, trained, deep>>
        BY <3>2, <1>0 DEF SwapModel
      <4> QED BY <4>1, <3>2, <2>1 DEF Held
    <3> QED BY <3>1, <3>2, <1>0
  <2> QED BY <2>2, <1>0 DEF LinkedKept
<1>9. Evolves
  BY <1>0, <1>1 DEF Evolves
<1>10. Locals(t, "deep", key[t], seen[t], at[t], was[t])
  BY <1>0, SameLocals DEF Locals, SwapModel, Goto
<1>11. /\ Arrays' /\ Moves(t) /\ pc'[t] = "deep" /\ key'[t] = key[t]
  <2>1. "deep" \in PC /\ UNCHANGED leaves
    BY <1>0 DEF PC, InsertSteps
  <2> QED BY <1>10, <2>1, LocatedSame, ThreadFacts
<1>12. ThreadInv(t)'
  BY <1>0, <1>1, <1>11 DEF ThreadInv, Types, Inserts, Gathers, Finds, NoBin, LeafSteps, SplitSteps, FindSteps
<1>13. CountCovers'
  BY <1>0, <1>4, <1>11, CountKept
<1> QED BY <1>4, <1>5, <1>6, <1>7, <1>8, <1>9, <1>11, <1>12, <1>13, StepSuffices DEF Bins

LEMMA DeepInsertIInv ==
    ASSUME IInv, NEW t \in Threads, DeepInsert(t)
    PROVE  IInv'
<1>0. /\ Shared /\ Tree /\ Open /\ Filled /\ Trained /\ LinkedKept
      /\ pc[t] = "deep" /\ mob = "model" /\ key[t] \in Keys
      /\ linked' = linked \cup {key[t]} /\ told' = told \cup {key[t]}
      /\ UNCHANGED <<mob, root, leaves, trained, calls, was>>
  BY ThreadFacts DEF IInv, Bins, DeepInsert, Types
<1>1. /\ deep \subseteq deep' /\ deep' \subseteq deep \cup {key[t]}
      /\ key[t] \in deep' \/ \E i \in DOMAIN trained : key[t] \in trained[i]
  BY DEF DeepInsert
<1>2. Shared'
  BY <1>0, <1>1 DEF Shared, Roots
<1>3. Tree' /\ Filled' /\ Open' /\ Trained'
  BY <1>0 DEF Tree, Filled, Open, Trained, Fits
<1>4. LinkedKept'
  <2>1. /\ Held = (UNION {trained[i] : i \in DOMAIN trained}) \cup deep
        /\ Held' = (UNION {trained[i] : i \in DOMAIN trained}) \cup deep'
    BY <1>0 DEF Held
  <2>2. key[t] \in Held'
    BY <2>1, <1>1
  <2>3. Held \subseteq Held'
    BY <2>1, <1>1
  <2> QED BY <2>2, <2>3, <1>0 DEF LinkedKept
<1>5. Evolves
  BY <1>0, <1>1 DEF Evolves
<1>6. Arrays' /\ Moves(t) /\ ThreadInv(t)'
  BY <1>0, SameLocals, LeftFacts DEF DeepInsert
<1>7. CountCovers'
  BY <1>0, <1>2, <1>6, CountKept
<1> QED BY <1>2, <1>3, <1>4, <1>5, <1>6, <1>7, StepSuffices DEF Bins

-----------------------------------------------------------------------------
(* The invariant *)

LEMMA InitIInv == Init => IInv
<1> SUFFICES ASSUME Init PROVE IInv
  OBVIOUS
<1>1. /\ mob = "null" /\ leaves = <<>> /\ trained = <<>> /\ linked = {} /\ deep = {}
      /\ DOMAIN leaves = {} /\ root = NoRoot /\ NoRoot \in Roots
  BY NoRootFits DEF Init
<1>2. root.seps = <<>> /\ root.kids = <<>> /\ root.marked = FALSE /\ DOMAIN root.seps = {} /\ DOMAIN root.kids = {}
  BY <1>1 DEF NoRoot
<1>3. Shared
  <2>1. \A S : <<>> \in Seq(S)
    BY EmptySeq
  <2> QED BY <1>1, <2>1, LimitsAreUsable DEF Init, Shared
<1>4. Tree /\ Open /\ Filled /\ Trained /\ LinkedKept
  BY <1>1, <1>2 DEF Tree, Open, Filled, Trained, LinkedKept, Ascends
<1>5. Arrays
  BY <1>1 DEF Init, Arrays, PC
<1>6. CountCovers
  BY <1>1 DEF CountCovers
<1>7. ASSUME NEW t \in Threads PROVE ThreadInv(t)
  <2>1. pc[t] = "idle"
    BY DEF Init
  <2> QED BY <2>1 DEF ThreadInv, Types, Inserts, Gathers, Finds, NoBin, LeafSteps, SplitSteps, FindSteps
<1> QED BY <1>3, <1>4, <1>5, <1>6, <1>7 DEF IInv, Bins

LEMMA StutterIInv ==
    ASSUME IInv, UNCHANGED vars
    PROVE  IInv'
<1>1. UNCHANGED <<mob, root, leaves, trained, deep, pc, key, seen, at, calls, linked, told, was>>
  BY DEF vars
<1>2. Bins'
  <2>1. calls' \in 0 .. MaxCalls /\ told' \subseteq Keys /\ UNCHANGED <<bin, linked>>
    BY <1>1, CallsStay DEF bin
  <2> QED BY <2>1, SameBin
<1>3. Arrays' /\ CountCovers'
  BY <1>1 DEF IInv, Arrays, CountCovers, Child, Roots
<1>4. ASSUME NEW t \in Threads PROVE ThreadInv(t)'
  <2>1. Types(t)' /\ Inserts(t)' /\ Gathers(t)'
    BY <1>1, ThreadFacts DEF Types, Inserts, Gathers, Child, Fits, Between
  <2>2. Finds(t)'
    BY <1>1, ThreadFacts, Zenon DEF Finds, Child, Separates
  <2> QED BY <2>1, <2>2 DEF ThreadInv
<1> QED BY <1>2, <1>3, <1>4 DEF IInv

LEMMA InsertIInv ==
    ASSUME IInv, NEW t \in Threads, InsertStep(t)
    PROVE  IInv'
<1>1. CASE LoadMob(t) \/ NewBin(t) \/ NewBinFails(t)
  BY <1>1, LoadMobIInv, NewBinIInv, NewBinFailsIInv
<1>2. CASE LoadRoot(t) \/ LoadMarked(t) \/ TestCount(t)
  BY <1>2, LoadRootIInv, LoadMarkedIInv, TestCountIInv
<1>3. CASE ListLinks(t) \/ ListHasKey(t) \/ ListFrozen(t) \/ CountUp(t)
  BY <1>3, ListLinksIInv, ListHasKeyIInv, ListFrozenIInv, CountUpIInv
<1>4. CASE CollectBegin(t) \/ CollectEnd(t) \/ Swing(t) \/ MarkRoot(t)
  BY <1>4, CollectBeginIInv, CollectEndIInv, SwingIInv, MarkRootIInv
<1>5. CASE GatherBegin(t) \/ GatherEnd(t) \/ SwapModel(t) \/ DeepInsert(t)
  BY <1>5, GatherBeginIInv, GatherEndIInv, SwapModelIInv, DeepInsertIInv
<1> QED BY <1>1, <1>2, <1>3, <1>4, <1>5 DEF InsertStep

LEMMA FindIInv ==
    ASSUME IInv, NEW t \in Threads, FindStep(t)
    PROVE  IInv'
BY FindMobIInv, FindRootIInv, FindListIInv, FindDeepIInv, ReturnFindIInv DEF FindStep

LEMMA NextIInv == IInv /\ [Next]_vars => IInv'
<1> SUFFICES ASSUME IInv, [Next]_vars PROVE IInv'
  OBVIOUS
<1>1. CASE UNCHANGED vars
  BY <1>1, StutterIInv
<1>2. CASE Next
  <2>1. PICK t \in Threads : (\E k \in Keys : CallInsert(t, k) \/ CallFind(t, k)) \/ Step(t)
    BY <1>2 DEF Next
  <2>2. CASE \E k \in Keys : CallInsert(t, k) \/ CallFind(t, k)
    BY <2>2, CallInsertIInv, CallFindIInv
  <2>3. CASE Step(t)
    BY <2>3, InsertIInv, FindIInv DEF Step
  <2> QED BY <2>1, <2>2, <2>3
<1> QED BY <1>1, <1>2

\* The inductive invariant holds in every state of the bin.
THEOREM Invariance == Spec => []IInv
BY InitIInv, NextIInv, PTL DEF Spec

-----------------------------------------------------------------------------
(* What the bin promises *)

\* The root of the bin and every root that a thread works on has one kid more
\* than separators and at most root_max separators, and the threads' indices
\* are within them: Bin::insert and Bin::collect read no child out of bounds.
THEOREM TypeCorrect == Spec => []TypeOK
<1>1. IInv => TypeOK
  <2> SUFFICES ASSUME IInv PROVE TypeOK
    OBVIOUS
  <2>1. /\ mob \in {"null", "bin", "model"}
        /\ leaves \in Seq([keys : SUBSET Keys, count : Nat, list : {"open", "freezing", "closed"}])
        /\ root \in Roots
        /\ mob # "null" => Len(root.kids) = Len(root.seps) + 1 /\ Len(root.seps) <= RootMax
        /\ trained \in Seq(SUBSET Keys) /\ deep \subseteq Keys /\ calls \in 0 .. MaxCalls
        /\ linked \subseteq Keys /\ told \subseteq Keys
    BY DEF IInv, Bins, Shared, Tree, Fits, LeafType
  <2>2. ASSUME NEW t \in Threads
        PROVE  /\ pc[t] \in InsertSteps \cup FindSteps \cup {"idle"}
               /\ pc[t] = "idle" \/ key[t] \in Keys
               /\ seen[t] \in Roots
               /\ was[t] \in BOOLEAN
               /\ pc[t] \in {"count", "list", "counted", "collect", "collecting", "swing", "findlist"}
                    => at[t] \in DOMAIN seen[t].kids
               /\ pc[t] \in {"gather", "gathering"} => at[t] \in 1 .. Len(seen[t].kids) + 1
    <3>1. was[t] \in BOOLEAN
      BY SameLocals
    <3> QED BY <3>1, ThreadFacts DEF PC, Types, Gathers, LeafSteps
  <2> QED BY <2>1, <2>2 DEF TypeOK
<1> QED BY <1>1, Invariance, PTL

\* A key that a list's insert has linked is never lost: not to a split that
\* another thread publishes, not to the training of a model.
THEOREM Kept == Spec => []LinkedKept
<1>1. IInv => LinkedKept
  BY DEF IInv, Bins
<1> QED BY <1>1, Invariance, PTL

\* The separators ascend and the keys of every kid lie between the separators
\* around it, whichever root the inserts that put them there had loaded.
THEOREM InRange == Spec => []LeavesInRange
<1>1. IInv => LeavesInRange
  <2> SUFFICES ASSUME IInv PROVE LeavesInRange
    OBVIOUS
  <2>1. Tree /\ root \in Roots
    BY DEF IInv, Bins, Shared
  <2>2. \A i \in 1 .. Len(root.seps) - 1 : root.seps[i] <= root.seps[i + 1]
    <3>1. \A i \in 1 .. Len(root.seps) - 1 : i \in DOMAIN root.seps /\ i + 1 \in DOMAIN root.seps /\ i <= i + 1
      BY <2>1, RootFacts
    <3> QED BY <3>1, <2>1 DEF Tree, Ascends
  <2>3. \A i \in DOMAIN root.kids : \A k \in leaves[root.kids[i]].keys :
            /\ i > 1 => root.seps[i - 1] <= k
            /\ i <= Len(root.seps) => k <= root.seps[i]
    BY <2>1 DEF Tree, Between
  <2> QED BY <2>2, <2>3 DEF LeavesInRange
<1> QED BY <1>1, Invariance, PTL

\* A leaf has no more keys than its count and the inserts that are about to
\* raise the count account for.
THEOREM Covered == Spec => []CountCovers
<1>1. IInv => CountCovers
  BY DEF IInv
<1> QED BY <1>1, Invariance, PTL

\* A find that misses a key linked before it began has searched a root of which
\* the key is a separator, or a model that has the key below it.
THEOREM Missed == Spec => []MissedAreSeparators
<1>1. IInv => MissedAreSeparators
  <2> SUFFICES ASSUME IInv, NEW t \in Threads, pc[t] = "absent", was[t]
               PROVE  key[t] \in deep \/ \E i \in DOMAIN seen[t].seps : seen[t].seps[i] = key[t]
    BY Zenon DEF MissedAreSeparators
  <2> QED BY ThreadFacts, Zenon DEF Finds, Separates
<1> QED BY <1>1, Invariance, PTL

-----------------------------------------------------------------------------
(* The keys that a find can reach *)

\* No leaf, not even one that has been replaced, and no model has a key that was
\* not linked by an insert.
OnlyLinked ==
    /\ \A i \in DOMAIN leaves : leaves[i].keys \subseteq linked
    /\ \A i \in DOMAIN trained : trained[i] \subseteq linked
    /\ deep \subseteq linked

\* A step that changes one leaf, and adds at most the key that it links.
LEMMA LeafStays ==
    ASSUME IInv, OnlyLinked, linked \subseteq linked', UNCHANGED <<trained, deep>>,
           DOMAIN leaves' = DOMAIN leaves,
           \A i \in DOMAIN leaves : leaves'[i].keys \subseteq leaves[i].keys \cup linked'
    PROVE  OnlyLinked'
BY DEF OnlyLinked

LEMMA ListBits ==
    ASSUME IInv, NEW c \in DOMAIN leaves, NEW n, NEW s,
           \/ leaves' = [leaves EXCEPT ![c].list = s]
           \/ leaves' = [leaves EXCEPT ![c].count = n]
    PROVE  DOMAIN leaves' = DOMAIN leaves /\ \A i \in DOMAIN leaves : leaves'[i].keys = leaves[i].keys
<1>1. leaves[c] \in LeafType /\ leaves \in Seq(LeafType)
  BY LeafFacts DEF IInv, Bins, Shared
<1>2. \A i \in DOMAIN leaves : i # c => leaves'[i] = leaves[i]
  BY <1>1
<1>3. leaves'[c].keys = leaves[c].keys
  BY <1>1 DEF LeafType
<1> QED BY <1>2, <1>3, <1>1

LEMMA SplitOnlyLinked ==
    ASSUME IInv, OnlyLinked, NEW t \in Threads, Swing(t)
    PROVE  OnlyLinked'
<1>0. UNCHANGED <<trained, deep, linked>> /\ pc[t] = "swing"
  BY DEF Swing, history
<1>1. CASE leaves' = leaves
  BY <1>0, <1>1 DEF OnlyLinked
<1>2. CASE root = seen[t]
  <2> DEFINE S == leaves[Child(t)].keys
             L == LowerHalf(S)
             U == UpperHalf(S)
  <2>1. /\ Shared /\ Child(t) \in DOMAIN leaves /\ S \subseteq Keys
    BY <1>0, ThreadFacts, LeafFacts DEF IInv, Bins, LeafSteps
  <2>2. L \subseteq S /\ U \subseteq S
    BY DEF LowerHalf, UpperHalf
  <2>3. leaves' = leaves \o <<Leaf(L, Cardinality(L)), Leaf(U, Cardinality(U))>>
    BY <1>2 DEF Swing
  <2>4. S \subseteq linked
    BY <2>1 DEF OnlyLinked
  <2> HIDE DEF S, L, U
  <2>5. PICK v, w : v = Leaf(L, Cardinality(L)) /\ w = Leaf(U, Cardinality(U))
    OBVIOUS
  <2>6. v \in LeafType /\ w \in LeafType /\ v.keys = L /\ w.keys = U
    BY <2>1, <2>2, <2>5, HalfLeaf
  <2>7. /\ \A i \in DOMAIN leaves : leaves'[i] = leaves[i]
        /\ leaves'[Len(leaves) + 1] = v /\ leaves'[Len(leaves) + 2] = w
        /\ \A i \in DOMAIN leaves' \ DOMAIN leaves : i = Len(leaves) + 1 \/ i = Len(leaves) + 2
    BY <2>1, <2>3, <2>5, <2>6, SplitLeaves
  <2>8. ASSUME NEW i \in DOMAIN leaves' PROVE leaves'[i].keys \subseteq linked
    <3>1. CASE i \in DOMAIN leaves
      BY <2>7, <3>1 DEF OnlyLinked
    <3>2. CASE i \notin DOMAIN leaves
      BY <2>2, <2>4, <2>6, <2>7, <3>2
    <3> QED BY <3>1, <3>2
  <2> QED BY <2>8, <1>0 DEF OnlyLinked
<1> QED BY <1>1, <1>2 DEF Swing

LEMMA InsertOnlyLinked ==
    ASSUME IInv, OnlyLinked, NEW t \in Threads, InsertStep(t)
    PROVE  OnlyLinked'
<1>0. OnlyLinked /\ Shared
  BY DEF IInv, Bins
<1>1. CASE LoadMob(t) \/ NewBinFails(t) \/ LoadRoot(t) \/ LoadMarked(t) \/ TestCount(t) \/ ListHasKey(t)
           \/ ListFrozen(t) \/ MarkRoot(t)
  <2>1. UNCHANGED <<leaves, trained, deep, linked>>
    BY <1>1 DEF LoadMob, NewBinFails, LoadRoot, LoadMarked, TestCount, ListHasKey, ListFrozen,
       MarkRoot, bin, history
  <2> QED BY <2>1 DEF OnlyLinked
<1>2. CASE NewBin(t)
  <2>1. PICK n \in FirstCount : leaves' = <<Leaf({}, n)>>
    BY <1>2 DEF NewBin
  <2>2. DOMAIN leaves' = {1} /\ leaves'[1].keys = {}
    BY <2>1 DEF Leaf
  <2>3. UNCHANGED <<trained, deep, linked>>
    BY <1>2 DEF NewBin, history
  <2> QED BY <2>2, <2>3 DEF OnlyLinked
<1>3. CASE ListLinks(t)
  <2>1. /\ Child(t) \in DOMAIN leaves /\ UNCHANGED <<trained, deep>> /\ linked' = linked \cup {key[t]}
        /\ leaves' = [leaves EXCEPT ![Child(t)].keys = @ \cup {key[t]}]
    BY <1>3, ThreadFacts DEF ListLinks, LeafSteps
  <2>2. leaves[Child(t)] \in LeafType /\ leaves \in Seq(LeafType)
    BY <1>0, <2>1, LeafFacts DEF Shared
  <2>3. leaves'[Child(t)].keys = leaves[Child(t)].keys \cup {key[t]}
    BY <2>1, <2>2 DEF LeafType
  <2>4. DOMAIN leaves' = DOMAIN leaves /\ \A i \in DOMAIN leaves : i # Child(t) => leaves'[i] = leaves[i]
    BY <2>1, <2>2
  <2> QED BY <2>1, <2>3, <2>4, LeafStays
<1>4. CASE CountUp(t)
  <2>1. /\ Child(t) \in DOMAIN leaves /\ UNCHANGED <<trained, deep, linked>>
        /\ leaves' = [leaves EXCEPT ![Child(t)].count = @ + 1]
    BY <1>4, ThreadFacts DEF CountUp, LeafSteps
  <2> QED BY <2>1, ListBits, LeafStays
<1>5. CASE CollectBegin(t) \/ CollectEnd(t) \/ GatherBegin(t) \/ GatherEnd(t)
  <2>1. Child(t) \in DOMAIN leaves
    <3>1. CASE CollectBegin(t) \/ CollectEnd(t)
      BY <3>1, ThreadFacts DEF CollectBegin, CollectEnd, LeafSteps
    <3>2. CASE GatherEnd(t)
      BY <3>2, ThreadFacts DEF GatherEnd
    <3>3. CASE GatherBegin(t)
      <4>1. at[t] \in DOMAIN seen[t].kids /\ seen[t] \in Roots
        BY <3>3, ThreadFacts, RootFacts DEF GatherBegin, Gathers
      <4> QED BY <4>1, RootFacts DEF Child
    <3> QED BY <1>5, <3>1, <3>2, <3>3
  <2>2. \E s : leaves' = [leaves EXCEPT ![Child(t)].list = s]
    BY <1>5 DEF CollectBegin, CollectEnd, GatherBegin, GatherEnd, Freeze
  <2>3. UNCHANGED <<trained, deep, linked>>
    BY <1>5 DEF CollectBegin, CollectEnd, GatherBegin, GatherEnd, history
  <2> QED BY <2>1, <2>2, <2>3, ListBits, LeafStays
<1>6. CASE Swing(t)
  BY <1>6, SplitOnlyLinked
<1>7. CASE SwapModel(t)
  <2>1. UNCHANGED <<leaves, deep, linked>>
    BY <1>7 DEF SwapModel, history
  <2>2. CASE trained' = trained
    BY <2>1, <2>2 DEF OnlyLinked
  <2>3. CASE trained' = [i \in DOMAIN seen[t].kids |-> leaves[seen[t].kids[i]].keys]
    <3>1. \A i \in DOMAIN seen[t].kids : seen[t].kids[i] \in DOMAIN leaves
      BY ThreadFacts, RootFacts
    <3> QED BY <2>1, <2>3, <3>1 DEF OnlyLinked
  <2> QED BY <1>7, <2>2, <2>3 DEF SwapModel
<1>8. CASE DeepInsert(t)
  <2>1. /\ UNCHANGED <<leaves, trained>> /\ linked' = linked \cup {key[t]}
        /\ deep' \subseteq deep \cup {key[t]}
    BY <1>8 DEF DeepInsert
  <2> QED BY <2>1 DEF OnlyLinked
<1> QED BY <1>1, <1>2, <1>3, <1>4, <1>5, <1>6, <1>7, <1>8 DEF InsertStep

LEMMA OnlyLinkedStep == IInv /\ OnlyLinked /\ [Next]_vars => OnlyLinked'
<1> SUFFICES ASSUME IInv, OnlyLinked, [Next]_vars PROVE OnlyLinked'
  OBVIOUS
<1>1. CASE UNCHANGED <<leaves, trained, deep, linked>>
  BY <1>1 DEF OnlyLinked
<1>2. CASE UNCHANGED vars
  BY <1>1, <1>2 DEF vars
<1>3. ASSUME NEW t \in Threads, (\E k \in Keys : CallInsert(t, k) \/ CallFind(t, k)) \/ FindStep(t)
      PROVE  OnlyLinked'
  BY <1>1, <1>3 DEF CallInsert, CallFind, FindStep, FindMob, FindRoot, FindList, FindDeep, ReturnFind,
     bin, history
<1> QED BY <1>2, <1>3, InsertOnlyLinked DEF Next, Step

\* HeldIsLinked: the set that finds search is the set that inserts have built.
HeldIsLinked == Held = linked

\* Exact: the keys that a find can reach from mobs_lf are exactly those that inserts
\* have linked: no split, no training and no swap loses one or makes one up.
THEOREM Exact == Spec => []HeldIsLinked
<1>1. Init => OnlyLinked
  BY DEF Init, OnlyLinked
<1>2. IInv /\ OnlyLinked => HeldIsLinked
  <2> SUFFICES ASSUME IInv, OnlyLinked PROVE Held \subseteq linked
    BY DEF IInv, Bins, LinkedKept, HeldIsLinked
  <2>1. mob \in {"null", "bin", "model"} /\ root \in Roots
    BY DEF IInv, Bins, Shared
  <2>2. Ranged(root) \subseteq linked
    BY <2>1, RootFacts DEF Ranged, OnlyLinked
  <2>3. (UNION {trained[i] : i \in DOMAIN trained}) \cup deep \subseteq linked
    BY DEF OnlyLinked
  <2> QED BY <2>1, <2>2, <2>3 DEF Held
<1> QED BY <1>1, <1>2, OnlyLinkedStep, Invariance, PTL DEF Spec

\* Grows: what a find can reach changes in two places only: when a list's insert
\* links its key, and when an insert goes below the trained model; each adds the key
\* of that insert.  The steps that split a leaf, mark the root, train the model and
\* swap it in are not seen by finds.
THEOREM Grows ==
    Spec => [][\/ Held' = Held
               \/ \E t \in Threads : pc[t] \in {"list", "deep"} /\ Held' = Held \cup {key[t]}]_vars
<1>1. ASSUME HeldIsLinked, HeldIsLinked', [Next]_vars
      PROVE  \/ Held' = Held
             \/ \E t \in Threads : pc[t] \in {"list", "deep"} /\ Held' = Held \cup {key[t]}
  <2> SUFFICES \/ linked' = linked
               \/ \E t \in Threads : pc[t] \in {"list", "deep"} /\ linked' = linked \cup {key[t]}
    BY <1>1 DEF HeldIsLinked
  <2> QED BY <1>1 DEF Next, vars, CallInsert, CallFind, Step, FindStep, FindMob, FindRoot, FindList,
          FindDeep, ReturnFind, InsertStep, LoadMob, NewBin, NewBinFails, LoadRoot, LoadMarked,
          TestCount, ListLinks, ListHasKey, ListFrozen, CountUp, CollectBegin, CollectEnd, Swing,
          MarkRoot, GatherBegin, GatherEnd, SwapModel, DeepInsert, history
<1> QED BY <1>1, Exact, PTL DEF Spec

=============================================================================
