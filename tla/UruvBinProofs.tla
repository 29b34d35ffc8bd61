--------------------------- MODULE UruvBinProofs ---------------------------
(***************************************************************************)
(* Proofs about a position of a Kanva_RS model, for any number of threads, *)
(* keys, updates and range queries and any threshhold.                     *)
(*                                                                         *)
(* The argument: a collect has behind it only frozen pointers, and a key   *)
(* is linked behind an unfrozen one, so never behind a collect.  Thus the  *)
(* collect that reaches the end has every key, and every version that was  *)
(* pushed before its node was frozen; what it passed is pushed late.       *)
(* A range query has the updates that were complete at its tick: those     *)
(* are stamped below its time, on the list that it reads, and the newest   *)
(* version below its time has all of them behind it.                       *)
(***************************************************************************)
EXTENDS UruvBin, FiniteSetTheorems, SequenceTheorems, WellFoundedInduction, TLAPS

-----------------------------------------------------------------------------
(* The position *)

Nodes == Linked \cup {MinNode}
Vnode == [val : Value \cup {Removed}, ts : Int, below : SUBSET Nat]
Version == 1 .. Len(vnodes)

Shared ==
    /\ clock \in 0 .. MaxClock /\ calls \in 0 .. MaxCalls
    /\ mob \in Mobs /\ isReclaimed \in BOOLEAN
    /\ next \in [MinNode .. NKeys -> 1 .. MaxNode]
    /\ frozen \subseteq Nodes
    /\ vhead \in [Key -> VersionId] /\ mhead \in [Key -> VersionId]
    /\ vnodes \in Seq(Vnode)
    /\ trained \subseteq Key
    /\ done \in [Key -> SUBSET Version] /\ late \in [Key -> SUBSET Version]
    /\ retired \subseteq Version

\* A node leads to the next greater one.
List ==
    \A n \in Nodes :
        /\ next[n] \in Linked \cup {MaxNode} /\ n < next[n]
        /\ \A k \in Linked : n < k => next[n] <= k

\* What a version leads to: older ones, in one line, which have their timestamps.
Below(i) ==
    /\ vnodes[i].ts \in Invalid .. clock
    /\ vnodes[i].below \subseteq 1 .. i - 1
    /\ \A j \in vnodes[i].below :
        /\ vnodes[j].ts # Invalid
        /\ vnodes[j].below \subseteq vnodes[i].below
        /\ \A m \in vnodes[i].below : j < m => j \in vnodes[m].below

Lines == \A i \in Version : Below(i)

\* The model has what was collected.
Modelled ==
    /\ mob # "model" => trained = {} /\ mhead = NoVersions
    /\ mob = "model" =>
        /\ Nodes \subseteq frozen
        /\ trained = Linked
        /\ \A k \in trained : mhead[k] # 0 /\ Chain(vhead[k]) \ late[k] \subseteq Chain(mhead[k])

\* An update that has returned is stamped.
Completed ==
    /\ \A k \in Key : done[k] # {} => k \in Linked
    /\ \A k \in Key : \A i \in done[k] : vnodes[i].ts # Invalid
    /\ mob # "model" => \A k \in Key : done[k] \subseteq Chain(vhead[k])
    /\ \A i \in retired : vnodes[i].ts # Invalid

\* The inserts whose node is not yet counted.
CountSteps == {"linked", "linkStamp", "count"}
Counting == {t \in Thread : local[t].pc \in CountSteps}
Counted == size \in Nat /\ size + Cardinality(Counting) = Cardinality(Linked)

Position == Shared /\ List /\ Lines /\ Modelled /\ Completed

-----------------------------------------------------------------------------
(* The threads: what the locals me of a thread say of the position *)

PC == WriteSteps \cup QuerySteps \cup {"idle"}
PlainSteps == {"idle", "retry", "absent", "newBin", "size", "find", "collect"}
NodeSteps == {"linked", "linkStamp", "count", "read", "readStamp", "readValue", "vCAS", "vStamp",
              "push", "pushed"}
LoadedSteps == {"readStamp", "vStamp", "push", "linkStamp", "count", "pushed"}
CollectSteps == {"freeze", "take", "swap"}

Writes(me) ==
    /\ me.pc \in PlainSteps => me.at = MinNode /\ me.got = NoVersions
    /\ me.pc \notin QuerySteps => me.seen = "null"
    /\ me.pc \in {"findStep", "link"} =>
        me.at \in Nodes /\ me.at < me.key /\ me.right \in Linked \cup {MaxNode}
    /\ me.pc = "link" => me.key < me.right
    /\ me.pc \in NodeSteps => me.key \in Linked
    /\ me.pc \in LoadedSteps => me.node \in Chain(vhead[me.key])
    /\ me.pc \in {"push", "count"} => vnodes[me.node].ts # Invalid
    /\ me.pc \in {"flag", "reclaim", "model"} => mob = "model"

Collects(me) ==
    me.pc \in CollectSteps =>
        /\ me.pc = "freeze" => me.at \in Nodes
        /\ me.pc = "take" => me.at \in Linked /\ me.at \in frozen
        /\ me.pc = "swap" => me.at = MaxNode
        /\ \A n \in Nodes : n < me.at => n \in frozen
        /\ \A k \in Key : me.got[k] # 0 <=> k \in Linked /\ k < me.at
        /\ \A k \in Linked : k < me.at => Chain(vhead[k]) \ late[k] \subseteq Chain(me.got[k])

\* Version i of key k is on the list that starts at version h, or the replacement
\* has lost it.
OnList(i, k, h) == i \in Chain(h) \/ (mob = "model" /\ i \notin Chain(mhead[k]))

\* What the range query has read of the keys below its place.
Read(me) ==
    me.seen # "null" => \A k \in Key : k < me.at => \A i \in me.tick[k] : OnList(i, k, me.got[k])

Queries(me) ==
    me.pc \in QuerySteps =>
        /\ \A k \in Key : \A i \in me.tick[k] : i \in done[k] /\ vnodes[i].ts < me.qts
        /\ me.seen = "model" => mob = "model"
        /\ me.seen = "bin" => \A k \in Key : me.tick[k] \subseteq Chain(vhead[k])
        /\ me.pc = "qMob" => me.seen = "null"
        /\ me.pc = "qHead" => me.seen = "bin" /\ me.at = MinNode
        /\ me.pc = "qNext" => me.at = MaxNode \/ (me.seen # "null" /\ me.at \in Linked)
        /\ me.pc \in {"qLoad", "qStamp"} =>
            /\ me.seen # "null" /\ me.at \in Linked /\ me.right \in Linked \cup {MaxNode}
            /\ me.at < me.right
            /\ \A k \in Key : me.at < k /\ k < me.right => me.tick[k] = {}
        /\ me.pc = "qStamp" => me.node # 0 /\ \A i \in me.tick[me.at] : OnList(i, me.at, me.node)
        /\ Read(me)

Inv(me) == Writes(me) /\ Collects(me) /\ Queries(me)

IInv ==
    /\ Position
    /\ local \in [Thread -> Locals]
    /\ Counted
    /\ \A t \in Thread : Inv(local[t])

-----------------------------------------------------------------------------
(* Numbers and versions *)

LEMMA Least ==
    ASSUME NEW T, T \subseteq Nat, T # {}
    PROVE  \E x \in T : \A y \in T : x <= y
<1> DEFINE R == {ss \in Nat \X Nat : ss[1] < ss[2]}
<1>1. IsWellFoundedOn(R, Nat)
  BY NatLessThanWellFounded, Zenon DEF OpToRel
<1> HIDE DEF R
<1>2. PICK x \in T : \A y \in T : ~(<<y, x>> \in R)
  BY <1>1, WFMin, Zenon
<1>3. ASSUME NEW y \in T, y < x PROVE FALSE
  <2>1. <<y, x>> \in Nat \X Nat /\ <<y, x>>[1] < <<y, x>>[2]
    BY <1>3
  <2>2. <<y, x>> \in R
    BY <2>1 DEF R
  <2> QED BY <2>2, <1>2
<1> QED BY <1>3, SMT

LEMMA MinIn ==
    ASSUME NEW T, T \subseteq Nat, T # {}
    PROVE  Min(T) \in T /\ \A y \in T : Min(T) <= y
<1>1. \E x \in T : \A y \in T : x <= y
  BY Least
<1> QED BY <1>1, Zenon DEF Min

LEMMA MaxIn ==
    ASSUME NEW n \in Nat, NEW T, T \subseteq 0 .. n, T # {}
    PROVE  Max(T) \in T /\ \A y \in T : y <= Max(T)
<1> DEFINE D == {n - x : x \in T}
<1>1. D \subseteq Nat /\ D # {}
  <2>1. ASSUME NEW x \in T PROVE n - x \in Nat
    <3>1. x \in 0 .. n
      OBVIOUS
    <3> QED BY <3>1
  <2>2. PICK x : x \in T
    OBVIOUS
  <2>3. n - x \in D
    BY <2>2
  <2> QED BY <2>1, <2>3
<1>2. PICK d \in D : \A e \in D : d <= e
  BY <1>1, Least
<1>3. PICK x \in T : d = n - x
  BY <1>2
<1>4. ASSUME NEW y \in T PROVE y <= x
  <2>1. n - y \in D
    OBVIOUS
  <2>2. n - x <= n - y /\ x \in Int /\ y \in Int
    BY <2>1, <1>2, <1>3
  <2> QED BY <2>2
<1>5. \E z \in T : \A y \in T : y <= z
  BY <1>4
<1>6. \E z \in T : \A y \in T : z >= y
  BY <1>5
<1>7. Max(T) \in T /\ \A y \in T : Max(T) >= y
  BY <1>6, Zenon DEF Max
<1> QED BY <1>7

LEMMA VersionFacts ==
    ASSUME Shared
    PROVE  /\ Len(vnodes) \in Nat /\ DOMAIN vnodes = Version
           /\ \A i \in Version :
                /\ i \in Nat /\ i # 0 /\ i \in VersionId
                /\ vnodes[i] \in Vnode /\ vnodes[i].val \in Value \cup {Removed}
                /\ vnodes[i].ts \in Int /\ vnodes[i].below \subseteq Nat
           /\ \A i \in VersionId : i # 0 => i \in Version
<1>1. Len(vnodes) \in Nat /\ DOMAIN vnodes = 1 .. Len(vnodes) /\ \A i \in 1 .. Len(vnodes) : vnodes[i] \in Vnode
  BY LenProperties, ElementOfSeq DEF Shared
<1>2. \A i \in Version : i \in Nat /\ i # 0 /\ i \in VersionId
  BY <1>1 DEF Version, VersionId
<1>3. \A i \in VersionId : i # 0 => i \in Version
  BY <1>1 DEF Version, VersionId
<1>4. \A e \in Vnode : e.val \in Value \cup {Removed} /\ e.ts \in Int /\ e.below \subseteq Nat
  BY DEF Vnode
<1> QED BY <1>1, <1>2, <1>3, <1>4 DEF Version

\* The versions that a version leads to are published, and in one line.
LEMMA ChainFacts ==
    ASSUME Shared, Lines, NEW h \in VersionId
    PROVE  /\ Chain(h) \subseteq Version
           /\ h # 0 => h \in Chain(h)
           /\ h = 0 => Chain(h) = {}
           /\ \A i \in Chain(h) : i <= h /\ Chain(i) \subseteq Chain(h) /\ (i # h => vnodes[i].ts # Invalid)
           /\ \A i, j \in Chain(h) : i <= j => i \in Chain(j)
<1>1. CASE h = 0
  BY <1>1 DEF Chain
<1>2. CASE h # 0
  <2>0. h \in Version /\ Below(h) /\ Len(vnodes) \in Nat /\ h \in Nat /\ h <= Len(vnodes)
    BY <1>2, VersionFacts DEF Lines, Version
  <2>1. Chain(h) = {h} \cup vnodes[h].below /\ h \in Chain(h)
    BY <1>2 DEF Chain
  <2>2. vnodes[h].below \subseteq 1 .. h - 1
    BY <2>0 DEF Below
  <2>3. \A i \in vnodes[h].below : i \in Nat /\ i < h /\ i \in Version /\ i # 0
    <3> SUFFICES ASSUME NEW i \in vnodes[h].below PROVE i \in Nat /\ i < h /\ i \in Version /\ i # 0
      OBVIOUS
    <3>1. i \in 1 .. h - 1
      BY <2>2
    <3> QED BY <3>1, <2>0 DEF Version
  <2>4. Chain(h) \subseteq Version
    BY <2>0, <2>1, <2>3
  <2>5. ASSUME NEW i \in Chain(h)
        PROVE  i <= h /\ Chain(i) \subseteq Chain(h) /\ (i # h => vnodes[i].ts # Invalid)
    <3>1. CASE i = h
      BY <3>1, <2>0
    <3>2. CASE i # h
      <4>1. i \in vnodes[h].below
        BY <3>2, <2>1
      <4>2. i # 0 /\ i <= h
        BY <4>1, <2>0, <2>3
      <4>3. vnodes[i].ts # Invalid /\ vnodes[i].below \subseteq vnodes[h].below
        BY <4>1, <2>0 DEF Below
      <4>4. Chain(i) = {i} \cup vnodes[i].below
        BY <4>2 DEF Chain
      <4> QED BY <4>1, <4>2, <4>3, <4>4, <2>1
    <3> QED BY <3>1, <3>2
  <2>6. ASSUME NEW i \in Chain(h), NEW j \in Chain(h), i <= j PROVE i \in Chain(j)
    <3>0. j \in Version /\ i \in Version /\ j # 0 /\ i \in Nat /\ j \in Nat
      BY <2>4, VersionFacts
    <3>1. Chain(j) = {j} \cup vnodes[j].below
      BY <3>0 DEF Chain
    <3>2. CASE i = j
      BY <3>1, <3>2
    <3>3. CASE i # j
      <4>1. i < j
        BY <3>0, <3>3, <2>6
      <4>2. CASE j = h
        BY <4>2, <3>1, <3>3, <2>1
      <4>3. CASE j # h
        <5>1. j \in vnodes[h].below
          BY <4>3, <2>1
        <5>2. i # h
          BY <4>1, <5>1, <2>3, <3>0
        <5>3. i \in vnodes[h].below
          BY <5>2, <2>1
        <5>4. i \in vnodes[j].below
          BY <4>1, <5>1, <5>3, <2>0 DEF Below
        <5> QED BY <5>4, <3>1
      <4> QED BY <4>2, <4>3
    <3> QED BY <3>2, <3>3
  <2> QED BY <2>1, <2>4, <2>5, <2>6, <1>2
<1> QED BY <1>1, <1>2

-----------------------------------------------------------------------------
(* What a step does to the position *)

\* Nothing that a thread has seen of the position is undone: versions keep what
\* they lead to and their timestamp, a key is linked behind an unfrozen node, and
\* what joins the versions of a frozen node is late.
Evolves ==
    /\ clock \in Nat /\ clock' \in Nat /\ clock <= clock'
    /\ Len(vnodes) \in Nat /\ Len(vnodes') \in Nat /\ Len(vnodes) <= Len(vnodes')
    /\ \A i \in Version : /\ vnodes'[i].below = vnodes[i].below
                          /\ vnodes[i].ts # Invalid => vnodes'[i].ts = vnodes[i].ts
    /\ Linked \subseteq Linked' /\ frozen \subseteq frozen'
    /\ \A k \in Linked' \ Linked : \E p \in Nodes : p \notin frozen /\ p < k
    /\ \A k \in Key : Chain(vhead[k]) \subseteq Chain(vhead[k])'
    /\ \A k \in Key \cap frozen : (Chain(vhead[k]) \ late[k])' \subseteq Chain(vhead[k]) \ late[k]
    /\ mob = "model" => mob' = "model"
    /\ mob = "model" => \A k \in Key : \A i \in Version : i \in Chain(mhead[k])' => i \in Chain(mhead[k])
    /\ \A k \in Key : done[k] \subseteq done'[k]

LEMMA LocalFacts ==
    ASSUME NEW me \in Locals
    PROVE  /\ me.pc \in PC /\ me.key \in Key /\ me.new \in Value \cup {Removed} /\ me.old \in Value \cup {Removed}
           /\ me.at \in MinNode .. MaxNode /\ me.right \in MinNode .. MaxNode /\ me.node \in VersionId
           /\ me.seen \in Mobs /\ me.got \in [Key -> VersionId] /\ me.qts \in 0 .. clock
           /\ me.tick \in [Key -> SUBSET VersionId]
BY DEF Locals, PC

LEMMA LocalsGrow ==
    ASSUME Evolves, NEW me \in Locals
    PROVE  me \in Locals'
<1>1. VersionId \subseteq VersionId' /\ 0 .. clock \subseteq 0 .. clock'
  BY DEF Evolves, VersionId
<1>2. [Key -> VersionId] \subseteq [Key -> VersionId']
  BY <1>1
<1>3. [Key -> SUBSET VersionId] \subseteq [Key -> SUBSET VersionId']
  BY <1>1
<1> HIDE DEF VersionId
<1> QED BY <1>1, <1>2, <1>3 DEF Locals

LEMMA ChainSame ==
    ASSUME Shared, Evolves, NEW h \in VersionId
    PROVE  Chain(h)' = Chain(h)
<1>1. CASE h = 0
  BY <1>1 DEF Chain
<1>2. CASE h # 0
  <2>1. h \in Version
    BY <1>2, VersionFacts
  <2>2. vnodes'[h].below = vnodes[h].below
    BY <2>1 DEF Evolves
  <2> QED BY <2>2, <1>2 DEF Chain
<1> QED BY <1>1, <1>2

LEMMA KeyFacts ==
    /\ MinNode \notin Key /\ MaxNode \notin Key /\ MinNode \in Nat /\ MaxNode \in Nat /\ MinNode < MaxNode
    /\ \A k \in Key : k \in Nat /\ MinNode < k /\ k < MaxNode /\ k \in MinNode .. MaxNode /\ k \in MinNode .. NKeys
    /\ MinNode \in MinNode .. MaxNode /\ MaxNode \in MinNode .. MaxNode /\ MinNode \in MinNode .. NKeys
    /\ \A n \in MinNode .. MaxNode : n \in Nat
BY UruvAssumption DEF Key, MinNode, MaxNode

LEMMA NodeFacts ==
    /\ Linked \subseteq Key /\ Linked \subseteq Nodes /\ MinNode \in Nodes
    /\ \A n \in Nodes : n \in Nat /\ n < MaxNode /\ n \in MinNode .. NKeys /\ (n # MinNode => n \in Linked)
    /\ Linked' \subseteq Key /\ Linked' \subseteq Nodes' /\ MinNode \in Nodes'
    /\ \A n \in Nodes' : n \in Nat /\ n < MaxNode /\ n \in MinNode .. NKeys /\ (n # MinNode => n \in Linked')
<1>1. Linked \subseteq Key /\ Linked' \subseteq Key
  BY DEF Linked
<1> QED BY <1>1, KeyFacts DEF Nodes

LEMMA WritesKept ==
    ASSUME Position, Evolves, NEW me \in Locals, Writes(me)
    PROVE  Writes(me)'
<1>1. Linked \subseteq Linked' /\ Nodes \subseteq Nodes'
  BY DEF Evolves, Nodes
<1>2. ASSUME me.pc \in LoadedSteps PROVE me.node \in Chain(vhead[me.key])'
  BY <1>2, LocalFacts DEF Writes, Evolves
<1>3. ASSUME me.pc \in {"push", "count"} PROVE vnodes'[me.node].ts # Invalid
  <2>1. me.node \in Chain(vhead[me.key]) /\ vhead[me.key] \in VersionId
    BY <1>3, LocalFacts DEF Writes, LoadedSteps, Position, Shared
  <2>2. me.node \in Version
    BY <2>1, ChainFacts DEF Position
  <2> QED BY <1>3, <2>2 DEF Writes, Evolves
<1> QED BY <1>1, <1>2, <1>3 DEF Writes, Evolves

LEMMA CollectsKept ==
    ASSUME Position, Evolves, NEW me \in Locals, Collects(me)
    PROVE  Collects(me)'
<1> SUFFICES ASSUME me.pc \in CollectSteps PROVE Collects(me)'
  BY DEF Collects
<1>0. /\ me.at \in Nat /\ me.got \in [Key -> VersionId] /\ Shared /\ Lines
      /\ Linked \subseteq Linked' /\ frozen \subseteq frozen' /\ Nodes \subseteq Nodes'
  BY LocalFacts, KeyFacts DEF Position, Evolves, Nodes
<1>1. /\ me.pc = "freeze" => me.at \in Nodes
      /\ me.pc = "take" => me.at \in Linked /\ me.at \in frozen
      /\ me.pc = "swap" => me.at = MaxNode
      /\ \A n \in Nodes : n < me.at => n \in frozen
      /\ \A k \in Key : me.got[k] # 0 <=> k \in Linked /\ k < me.at
      /\ \A k \in Linked : k < me.at => Chain(vhead[k]) \ late[k] \subseteq Chain(me.got[k])
  BY DEF Collects
<1>2. ASSUME NEW k \in Linked', k < me.at PROVE k \in Linked
  <2> SUFFICES ASSUME k \notin Linked PROVE FALSE
    OBVIOUS
  <2>1. PICK p \in Nodes : p \notin frozen /\ p < k
    BY DEF Evolves
  <2>2. p \in Nat /\ k \in Nat
    BY NodeFacts, KeyFacts
  <2>3. p < me.at
    BY <2>1, <2>2, <1>0, <1>2
  <2> QED BY <2>1, <2>3, <1>1
<1>3. ASSUME NEW n \in Nodes', n < me.at PROVE n \in frozen'
  <2>1. n \in Nodes
    BY <1>2, <1>3 DEF Nodes
  <2> QED BY <2>1, <1>0, <1>1, <1>3
<1>4. ASSUME NEW k \in Key PROVE me.got[k] # 0 <=> k \in Linked' /\ k < me.at
  BY <1>0, <1>1, <1>2
<1>5. ASSUME NEW k \in Linked', k < me.at
      PROVE  (Chain(vhead[k]) \ late[k])' \subseteq Chain(me.got[k])'
  <2>1. k \in Linked /\ k \in Key /\ k \in Nodes
    BY <1>2, <1>5, NodeFacts
  <2>2. k \in frozen
    BY <2>1, <1>1, <1>5
  <2>3. (Chain(vhead[k]) \ late[k])' \subseteq Chain(vhead[k]) \ late[k]
    BY <2>1, <2>2 DEF Evolves
  <2>4. Chain(me.got[k])' = Chain(me.got[k])
    BY <2>1, <1>0, ChainSame
  <2> QED BY <2>1, <2>3, <2>4, <1>1, <1>5
<1>6. /\ me.pc = "freeze" => me.at \in Nodes'
      /\ me.pc = "take" => me.at \in Linked' /\ me.at \in frozen'
  BY <1>0, <1>1
<1> QED BY <1>1, <1>3, <1>4, <1>5, <1>6 DEF Collects

LEMMA OnListKept ==
    ASSUME Position, Evolves, NEW k \in Key, NEW i \in Version, NEW h \in VersionId, OnList(i, k, h)
    PROVE  OnList(i, k, h)'
<1>1. Chain(h)' = Chain(h)
  BY ChainSame DEF Position
<1>2. ASSUME mob = "model", i \notin Chain(mhead[k]) PROVE mob' = "model" /\ i \notin Chain(mhead[k])'
  BY <1>2 DEF Evolves
<1> QED BY <1>1, <1>2 DEF OnList

LEMMA QueriesKept ==
    ASSUME Position, Evolves, NEW me \in Locals, Queries(me)
    PROVE  Queries(me)'
<1> SUFFICES ASSUME me.pc \in QuerySteps PROVE Queries(me)'
  BY DEF Queries
<1>0. /\ me.at \in Nat /\ me.got \in [Key -> VersionId] /\ me.node \in VersionId /\ Shared /\ Lines /\ Completed
      /\ Linked \subseteq Linked' /\ Linked \subseteq Key
  BY LocalFacts, KeyFacts, NodeFacts DEF Position, Evolves
<1>1. /\ \A k \in Key : \A i \in me.tick[k] : i \in done[k] /\ vnodes[i].ts < me.qts
      /\ me.seen = "model" => mob = "model"
      /\ me.seen = "bin" => \A k \in Key : me.tick[k] \subseteq Chain(vhead[k])
      /\ me.pc = "qMob" => me.seen = "null"
      /\ me.pc = "qHead" => me.seen = "bin" /\ me.at = MinNode
      /\ me.pc = "qNext" => me.at = MaxNode \/ (me.seen # "null" /\ me.at \in Linked)
      /\ me.pc \in {"qLoad", "qStamp"} =>
            /\ me.seen # "null" /\ me.at \in Linked /\ me.right \in Linked \cup {MaxNode}
            /\ me.at < me.right
            /\ \A k \in Key : me.at < k /\ k < me.right => me.tick[k] = {}
      /\ me.pc = "qStamp" => me.node # 0 /\ \A i \in me.tick[me.at] : OnList(i, me.at, me.node)
      /\ Read(me)
  BY DEF Queries
<1>2. ASSUME NEW k \in Key, NEW i \in me.tick[k]
      PROVE  i \in Version /\ i \in done'[k] /\ vnodes'[i].ts < me.qts
  <2>1. i \in done[k] /\ vnodes[i].ts < me.qts
    BY <1>1
  <2>2. i \in Version /\ vnodes[i].ts # Invalid
    BY <2>1, <1>0 DEF Shared, Completed
  <2> QED BY <2>1, <2>2 DEF Evolves
<1>3. ASSUME me.pc = "qStamp", NEW i \in me.tick[me.at] PROVE OnList(i, me.at, me.node)'
  <2>1. me.at \in Key /\ OnList(i, me.at, me.node)
    BY <1>0, <1>1, <1>3
  <2>2. i \in Version
    BY <2>1, <1>2
  <2> QED BY <2>1, <2>2, <1>0, OnListKept
<1>4. Read(me)'
  <2> SUFFICES ASSUME me.seen # "null", NEW k \in Key, k < me.at, NEW i \in me.tick[k]
               PROVE  OnList(i, k, me.got[k])'
    BY DEF Read
  <2>1. OnList(i, k, me.got[k])
    BY <1>1 DEF Read
  <2>2. i \in Version /\ me.got[k] \in VersionId
    BY <1>0, <1>2
  <2> QED BY <2>1, <2>2, OnListKept
<1>5. ASSUME me.seen = "bin", NEW k \in Key PROVE me.tick[k] \subseteq Chain(vhead[k])'
  BY <1>1, <1>5 DEF Evolves
<1>6. me.seen = "model" => mob' = "model"
  BY <1>1 DEF Evolves
<1>7. \A k \in Key : \A i \in me.tick[k] : i \in done'[k] /\ vnodes'[i].ts < me.qts
  BY <1>2
<1>8. /\ me.pc = "qNext" => me.at = MaxNode \/ (me.seen # "null" /\ me.at \in Linked')
      /\ me.pc \in {"qLoad", "qStamp"} =>
            /\ me.seen # "null" /\ me.at \in Linked' /\ me.right \in Linked' \cup {MaxNode}
            /\ me.at < me.right
            /\ \A k \in Key : me.at < k /\ k < me.right => me.tick[k] = {}
  BY <1>0, <1>1
<1> QED BY <1>1, <1>3, <1>4, <1>5, <1>6, <1>7, <1>8 DEF Queries

LEMMA Kept ==
    ASSUME Position, Evolves, NEW me \in Locals, Inv(me)
    PROVE  Inv(me)'
BY WritesKept, CollectsKept, QueriesKept DEF Inv

\* Thread t has the locals r after a step that nothing is undone by.
LEMMA StepSuffices ==
    ASSUME IInv, NEW t \in Thread, Evolves, NEW r \in Locals', local' = [local EXCEPT ![t] = r],
           Inv(r)', Position', Counted'
    PROVE  IInv' /\ Evolves
<1>1. local \in [Thread -> Locals] /\ Position /\ \A u \in Thread : Inv(local[u])
  BY DEF IInv
<1>2. \A u \in Thread : local[u] \in Locals'
  BY <1>1, LocalsGrow
<1>3. local' \in [Thread -> Locals']
  BY <1>1, <1>2, Zenon
<1>4. ASSUME NEW u \in Thread PROVE Inv(local[u])'
  <2>1. CASE u = t
    <3>1. local'[u] = r
      BY <2>1, <1>1, Zenon
    <3> QED BY <3>1 DEF Inv, Writes, Collects, Queries, Read
  <2>2. CASE u # t
    <3>1. PICK me : me = local[u]
      OBVIOUS
    <3>2. local'[u] = me
      BY <2>2, <3>1, <1>1, Zenon
    <3>3. Inv(me)'
      BY <3>1, <1>1, Kept
    <3> QED BY <3>2, <3>3 DEF Inv, Writes, Collects, Queries, Read
  <2> QED BY <2>1, <2>2
<1> QED BY <1>3, <1>4 DEF IInv

-----------------------------------------------------------------------------
(* The parts of a step *)

\* What the list and the model are made of.
shared == <<clock, mob, isReclaimed, next, frozen, vhead, vnodes, trained, mhead, done, late, retired>>

LEMMA SameShared ==
    ASSUME Position, UNCHANGED shared, calls' \in 0 .. MaxCalls
    PROVE  Position' /\ Evolves
<1>0. /\ clock' = clock /\ mob' = mob /\ isReclaimed' = isReclaimed /\ next' = next /\ frozen' = frozen
      /\ vhead' = vhead /\ vnodes' = vnodes /\ trained' = trained /\ mhead' = mhead /\ done' = done
      /\ late' = late /\ retired' = retired
  BY DEF shared
<1>1. Linked' = Linked /\ VersionId' = VersionId /\ Version' = Version /\ Nodes' = Nodes
  BY <1>0 DEF Linked, VersionId, Version, Nodes
<1>2. Shared'
  BY <1>0, <1>1 DEF Position, Shared
<1>3. List'
  BY <1>0, <1>1 DEF Position, List
<1>4. Lines'
  BY <1>0, <1>1 DEF Position, Lines, Below
<1>5. Modelled'
  BY <1>0, <1>1 DEF Position, Modelled, Chain
<1>6. Completed'
  BY <1>0, <1>1 DEF Position, Completed, Chain
<1>7. clock \in Nat /\ Len(vnodes) \in Nat
  BY VersionFacts, UruvAssumption DEF Position, Shared
<1>8. Evolves
  BY <1>0, <1>1, <1>7 DEF Evolves, Chain
<1> QED BY <1>2, <1>3, <1>4, <1>5, <1>6, <1>8 DEF Position

LEMMA CountingFinite ==
    /\ IsFiniteSet(Counting) /\ Cardinality(Counting) \in Nat
    /\ IsFiniteSet(Counting') /\ Cardinality(Counting') \in Nat
    /\ IsFiniteSet(Linked) /\ Cardinality(Linked) \in Nat
    /\ IsFiniteSet(Linked') /\ Cardinality(Linked') \in Nat
<1>1. Counting \in SUBSET Thread /\ Counting' \in SUBSET Thread
  BY DEF Counting
<1>2. Linked \in SUBSET Key /\ Linked' \in SUBSET Key
  BY DEF Linked
<1>3. IsFiniteSet(Key)
  BY UruvAssumption, FS_Interval DEF Key
<1> QED BY <1>1, <1>2, <1>3, UruvAssumption, FS_Subset, FS_CardinalityType

LEMMA CountedKept ==
    ASSUME IInv, NEW t \in Thread, NEW r, local' = [local EXCEPT ![t] = r],
           r.pc \in CountSteps <=> local[t].pc \in CountSteps, Linked' = Linked, size' = size
    PROVE  Counted'
<1>1. local \in [Thread -> Locals] /\ Counted
  BY DEF IInv
<1>2. ASSUME NEW u \in Thread PROVE local'[u].pc \in CountSteps <=> local[u].pc \in CountSteps
  <2>1. local'[u] = IF u = t THEN r ELSE local[u]
    BY <1>1
  <2> QED BY <2>1
<1>3. Counting' = Counting
  BY <1>2 DEF Counting
<1> QED BY <1>1, <1>3 DEF Counted

LEMMA SharedLinked == ASSUME UNCHANGED shared PROVE Linked' = Linked
BY DEF shared, Linked

LEMMA InvSame ==
    ASSUME UNCHANGED shared, NEW me, Inv(me)
    PROVE  Inv(me)'
<1>0. /\ clock' = clock /\ mob' = mob /\ isReclaimed' = isReclaimed /\ next' = next /\ frozen' = frozen
      /\ vhead' = vhead /\ vnodes' = vnodes /\ trained' = trained /\ mhead' = mhead /\ done' = done
      /\ late' = late /\ retired' = retired
  BY DEF shared
<1>1. Linked' = Linked /\ Nodes' = Nodes
  BY <1>0 DEF Linked, Nodes
<1>2. Writes(me)'
  BY <1>0, <1>1 DEF Inv, Writes, Chain
<1>3. Collects(me)'
  BY <1>0, <1>1 DEF Inv, Collects, Chain
<1>4. Queries(me)'
  BY <1>0, <1>1 DEF Inv, Queries, Read, OnList, Chain
<1> QED BY <1>2, <1>3, <1>4 DEF Inv

\* A step that changes only the locals of its thread.
LEMMA LocalStep ==
    ASSUME IInv, NEW t \in Thread, UNCHANGED shared, size' = size, calls' \in 0 .. MaxCalls,
           NEW r \in Locals, local' = [local EXCEPT ![t] = r], Inv(r),
           r.pc \in CountSteps <=> local[t].pc \in CountSteps
    PROVE  IInv' /\ Evolves
<1>1. Position' /\ Evolves
  BY SameShared DEF IInv
<1>2. Linked' = Linked
  BY SharedLinked
<1>3. Counted'
  BY <1>2, CountedKept
<1>4. r \in Locals'
  BY <1>1, LocalsGrow
<1>5. Inv(r)'
  BY InvSame
<1> QED BY <1>1, <1>3, <1>4, <1>5, StepSuffices

LEMMA ThreadFacts ==
    ASSUME IInv, NEW t \in Thread
    PROVE  /\ local[t] \in Locals /\ Inv(local[t]) /\ Writes(local[t]) /\ Collects(local[t]) /\ Queries(local[t])
           /\ Position /\ Shared /\ List /\ Lines /\ Modelled /\ Completed /\ calls \in 0 .. MaxCalls
           /\ local \in [Thread -> Locals]
BY DEF IInv, Inv, Position, Shared

\* A thread that holds on to nothing.
LEMMA PlainInv ==
    ASSUME NEW r, r.pc \in PlainSteps \cup {"flag", "reclaim", "model"}, r.seen = "null",
           r.pc \in PlainSteps => r.at = MinNode /\ r.got = NoVersions,
           r.pc \in {"flag", "reclaim", "model"} => mob = "model"
    PROVE  Inv(r)
<1>1. /\ r.pc \notin QuerySteps /\ r.pc \notin CollectSteps /\ r.pc \notin NodeSteps /\ r.pc \notin LoadedSteps
      /\ r.pc \notin {"findStep", "link", "push", "count"}
  BY DEF PlainSteps, QuerySteps, CollectSteps, NodeSteps, LoadedSteps
<1> QED BY <1>1 DEF Inv, Writes, Collects, Queries

LEMMA NoCallFields ==
    /\ NoCall.pc = "idle" /\ NoCall.seen = "null" /\ NoCall.at = MinNode /\ NoCall.got = NoVersions
    /\ NoCall.key = 1 /\ NoCall.new = Removed /\ NoCall.old = Removed /\ NoCall.right = MinNode
    /\ NoCall.node = 0 /\ NoCall.qts = 0 /\ NoCall.tick = [k \in Key |-> {}]
BY DEF NoCall

LEMMA NoCallFits ==
    ASSUME Shared
    PROVE  NoCall \in Locals /\ Inv(NoCall)
<1>1. 1 \in Key /\ 0 \in VersionId /\ 0 \in 0 .. clock
  BY UruvAssumption, VersionFacts DEF Key, VersionId, Shared
<1>2. NoVersions \in [Key -> VersionId] /\ [k \in Key |-> {}] \in [Key -> SUBSET VersionId]
  BY <1>1 DEF NoVersions
<1>3. NoCall \in Locals
  BY <1>1, <1>2, KeyFacts DEF NoCall, Locals, Mobs
<1>4. Inv(NoCall)
  BY NoCallFields, PlainInv DEF PlainSteps
<1> QED BY <1>3, <1>4

\* The same locals, at another step.
Alike(r, me) ==
    /\ r.key = me.key /\ r.new = me.new /\ r.old = me.old /\ r.at = me.at /\ r.right = me.right
    /\ r.node = me.node /\ r.seen = me.seen /\ r.got = me.got /\ r.qts = me.qts /\ r.tick = me.tick

LEMMA GotoFacts ==
    ASSUME IInv, NEW t \in Thread, NEW p \in PC, Goto(t, p)
    PROVE  \E r \in Locals : local' = [local EXCEPT ![t] = r] /\ r.pc = p /\ Alike(r, local[t])
<1>1. PICK r : r = [local[t] EXCEPT !.pc = p]
  OBVIOUS
<1>2. local' = [local EXCEPT ![t] = r]
  BY <1>1 DEF Goto
<1>3. r \in Locals /\ r.pc = p /\ Alike(r, local[t])
  BY <1>1, ThreadFacts DEF Locals, Alike, PC
<1> QED BY <1>2, <1>3

\* The locals of a call that starts over.
Afresh(r, me) ==
    /\ r.key = me.key /\ r.new = me.new /\ r.old = Removed /\ r.at = MinNode /\ r.right = MinNode
    /\ r.node = 0 /\ r.seen = "null" /\ r.got = NoVersions /\ r.qts = 0

LEMMA ContinueFacts ==
    ASSUME IInv, NEW t \in Thread, NEW p \in PC, Continue(t, p)
    PROVE  \E r \in Locals : local' = [local EXCEPT ![t] = r] /\ r.pc = p /\ Afresh(r, local[t])
<1>1. PICK r : r = [NoCall EXCEPT !.pc = p, !.key = local[t].key, !.new = local[t].new]
  OBVIOUS
<1>2. local' = [local EXCEPT ![t] = r]
  BY <1>1 DEF Continue
<1>3. NoCall \in Locals
  BY ThreadFacts, NoCallFits
<1>4. local[t].key \in Key /\ local[t].new \in Value \cup {Removed}
  BY ThreadFacts, LocalFacts
<1>5. r \in Locals /\ r.pc = p /\ r.key = local[t].key /\ r.new = local[t].new
      /\ r.old = NoCall.old /\ r.at = NoCall.at /\ r.right = NoCall.right
      /\ r.node = NoCall.node /\ r.seen = NoCall.seen /\ r.got = NoCall.got /\ r.qts = NoCall.qts
  BY <1>1, <1>3, <1>4 DEF Locals, PC
<1> QED BY <1>2, <1>5, NoCallFields DEF Afresh

\* What a step leaves alone when it changes locals only.
idle == <<clock, flags, links, vhead, vnodes, model, history>>

LEMMA IdleShared == ASSUME UNCHANGED idle PROVE UNCHANGED shared /\ size' = size
BY DEF idle, shared, flags, links, model, history

-----------------------------------------------------------------------------
(* The steps that change only their thread *)

LEMMA ReturnStep ==
    ASSUME IInv, NEW t \in Thread, UNCHANGED <<idle, calls>>, Return(t), local[t].pc \notin CountSteps
    PROVE  IInv' /\ Evolves
<1>1. UNCHANGED shared /\ size' = size /\ calls' \in 0 .. MaxCalls
  BY IdleShared, ThreadFacts DEF idle
<1>2. NoCall \in Locals /\ Inv(NoCall) /\ NoCall.pc \notin CountSteps
  BY ThreadFacts, NoCallFits, NoCallFields DEF CountSteps
<1>3. local' = [local EXCEPT ![t] = NoCall]
  BY DEF Return
<1> QED BY <1>1, <1>2, <1>3, LocalStep

LEMMA PlainGoto ==
    ASSUME IInv, NEW t \in Thread, UNCHANGED <<idle, calls>>, local[t].pc \in PlainSteps,
           NEW p, p \in PlainSteps \cup {"model"}, p = "model" => mob = "model", Goto(t, p)
    PROVE  IInv' /\ Evolves
<1>1. UNCHANGED shared /\ size' = size /\ calls' \in 0 .. MaxCalls
  BY IdleShared, ThreadFacts DEF idle
<1>2. p \in PC
  BY DEF PC, PlainSteps, WriteSteps
<1>3. PICK r \in Locals : local' = [local EXCEPT ![t] = r] /\ r.pc = p /\ Alike(r, local[t])
  BY <1>2, GotoFacts
<1>4. local[t].at = MinNode /\ local[t].got = NoVersions /\ local[t].seen = "null"
  BY ThreadFacts DEF Writes, PlainSteps, QuerySteps
<1>5. Inv(r)
  BY <1>3, <1>4, PlainInv DEF Alike, PlainSteps
<1>6. r.pc \in CountSteps <=> local[t].pc \in CountSteps
  BY <1>3 DEF CountSteps, PlainSteps
<1> QED BY <1>1, <1>3, <1>5, <1>6, LocalStep

LEMMA PlainContinue ==
    ASSUME IInv, NEW t \in Thread, UNCHANGED <<idle, calls>>, local[t].pc \notin CountSteps,
           NEW p, p \in PlainSteps, Continue(t, p)
    PROVE  IInv' /\ Evolves
<1>1. UNCHANGED shared /\ size' = size /\ calls' \in 0 .. MaxCalls
  BY IdleShared, ThreadFacts DEF idle
<1>2. p \in PC
  BY DEF PC, PlainSteps, WriteSteps
<1>3. PICK r \in Locals : local' = [local EXCEPT ![t] = r] /\ r.pc = p /\ Afresh(r, local[t])
  BY <1>2, ContinueFacts
<1>5. Inv(r)
  BY <1>3, PlainInv DEF Afresh, PlainSteps
<1>6. r.pc \in CountSteps <=> local[t].pc \in CountSteps
  BY <1>3 DEF CountSteps, PlainSteps
<1> QED BY <1>1, <1>3, <1>5, <1>6, LocalStep

LEMMA DispatchFacts ==
    ASSUME Shared, NEW v
    PROVE  Dispatch(v) \in {"absent", "newBin", "size", "model"} /\ (Dispatch(v) = "model" => mob = "model")
<1>1. mob = "null" \/ mob = "bin" \/ mob = "model"
  BY DEF Shared, Mobs
<1> QED BY <1>1 DEF Dispatch

LEMMA CallWriteIInv ==
    ASSUME IInv, NEW t \in Thread, NEW k \in Key, NEW v \in Value \cup {Removed}, CallWrite(t, k, v)
    PROVE  IInv' /\ Evolves
<1>1. UNCHANGED shared /\ size' = size
  BY IdleShared DEF idle, CallWrite
<1>2. calls' \in 0 .. MaxCalls
  BY ThreadFacts, UruvAssumption DEF CallWrite
<1>3. local[t].pc = "idle"
  BY DEF CallWrite, At
<1>4. local[t].at = MinNode /\ local[t].got = NoVersions /\ local[t].seen = "null"
  BY <1>3, ThreadFacts DEF Writes, PlainSteps, QuerySteps
<1>5. PICK p \in {"absent", "newBin", "size", "model"} : p = Dispatch(v) /\ (p = "model" => mob = "model")
  BY ThreadFacts, DispatchFacts
<1>6. PICK r : r = [local[t] EXCEPT !.pc = p, !.key = k, !.new = v]
  OBVIOUS
<1>7. local' = [local EXCEPT ![t] = r]
  BY <1>5, <1>6, ThreadFacts DEF CallWrite
<1>11. p \in PC
  BY DEF PC, WriteSteps
<1>8. r \in Locals /\ r.pc = p /\ r.at = local[t].at /\ r.got = local[t].got /\ r.seen = local[t].seen
  BY <1>6, <1>11, ThreadFacts DEF Locals, PC
<1>9. Inv(r)
  BY <1>4, <1>5, <1>8, PlainInv DEF PlainSteps
<1>10. r.pc \notin CountSteps /\ local[t].pc \notin CountSteps
  BY <1>3, <1>8 DEF CountSteps
<1> QED BY <1>1, <1>2, <1>7, <1>8, <1>9, <1>10, LocalStep

LEMMA LoadMobIInv ==
    ASSUME IInv, NEW t \in Thread, LoadMob(t)
    PROVE  IInv' /\ Evolves
<1>1. PICK p \in {"absent", "newBin", "size", "model"} :
        p = Dispatch(local[t].new) /\ (p = "model" => mob = "model")
  BY ThreadFacts, DispatchFacts
<1> QED BY <1>1, PlainGoto DEF LoadMob, At, PlainSteps, idle

LEMMA RemoveNothingIInv == ASSUME IInv, NEW t \in Thread, RemoveNothing(t) PROVE IInv' /\ Evolves
BY ReturnStep DEF RemoveNothing, At, CountSteps, idle

LEMMA NewBinFailsIInv == ASSUME IInv, NEW t \in Thread, NewBinFails(t) PROVE IInv' /\ Evolves
BY PlainGoto DEF NewBinFails, At, PlainSteps, idle

LEMMA TestSizeIInv == ASSUME IInv, NEW t \in Thread, TestSize(t) PROVE IInv' /\ Evolves
<1>1. PICK p \in {"find", "collect"} : Goto(t, p)
  BY DEF TestSize
<1> QED BY <1>1, PlainGoto DEF TestSize, At, PlainSteps, idle

LEMMA RemoveFullIInv == ASSUME IInv, NEW t \in Thread, RemoveFull(t) PROVE IInv' /\ Evolves
BY ReturnStep DEF RemoveFull, At, CountSteps, idle

LEMMA FindFrozenIInv == ASSUME IInv, NEW t \in Thread, FindFrozen(t) PROVE IInv' /\ Evolves
BY ReturnStep DEF FindFrozen, At, CountSteps, idle

LEMMA LinkFailsIInv == ASSUME IInv, NEW t \in Thread, LinkFails(t) PROVE IInv' /\ Evolves
BY PlainContinue DEF LinkFails, At, CountSteps, PlainSteps, idle

LEMMA CollectReclaimedIInv == ASSUME IInv, NEW t \in Thread, CollectReclaimed(t) PROVE IInv' /\ Evolves
BY PlainContinue DEF CollectReclaimed, At, CountSteps, PlainSteps, idle

LEMMA SwapFailsIInv == ASSUME IInv, NEW t \in Thread, SwapFails(t) PROVE IInv' /\ Evolves
BY PlainContinue DEF SwapFails, At, CountSteps, PlainSteps, idle

LEMMA ModelNothingIInv == ASSUME IInv, NEW t \in Thread, ModelNothing(t) PROVE IInv' /\ Evolves
BY ReturnStep DEF ModelNothing, At, CountSteps, idle

LEMMA QueryReturnIInv == ASSUME IInv, NEW t \in Thread, QueryReturn(t) PROVE IInv' /\ Evolves
BY ReturnStep DEF QueryReturn, At, CountSteps, idle

LEMMA FindHeadIInv ==
    ASSUME IInv, NEW t \in Thread, FindHead(t)
    PROVE  IInv' /\ Evolves
<1>1. UNCHANGED shared /\ size' = size /\ calls' \in 0 .. MaxCalls
  BY IdleShared, ThreadFacts DEF idle, FindHead
<1>2. local[t].pc = "find" /\ local[t].key \in Key
  BY ThreadFacts, LocalFacts DEF FindHead, At
<1>3. local[t].at = MinNode /\ local[t].got = NoVersions /\ local[t].seen = "null"
  BY <1>2, ThreadFacts DEF Writes, PlainSteps, QuerySteps
<1>4. next[MinNode] \in Linked \cup {MaxNode} /\ next[MinNode] \in MinNode .. MaxNode
  BY ThreadFacts, NodeFacts, KeyFacts DEF List
<1>5. PICK r : r = [local[t] EXCEPT !.pc = "findStep", !.right = next[MinNode]]
  OBVIOUS
<1>6. local' = [local EXCEPT ![t] = r]
  BY <1>5, ThreadFacts DEF FindHead
<1>7. "findStep" \in PC
  BY DEF PC, WriteSteps
<1>8. /\ r \in Locals /\ r.pc = "findStep" /\ r.at = local[t].at /\ r.right = next[MinNode]
      /\ r.key = local[t].key /\ r.seen = local[t].seen
  BY <1>4, <1>5, <1>7, ThreadFacts DEF Locals, PC
<1>9. Writes(r)
  BY <1>2, <1>3, <1>4, <1>8, NodeFacts, KeyFacts DEF Writes, PlainSteps, NodeSteps, LoadedSteps
<1>10. Inv(r) /\ r.pc \notin CountSteps /\ local[t].pc \notin CountSteps
  BY <1>2, <1>8, <1>9 DEF Inv, Collects, Queries, CollectSteps, QuerySteps, CountSteps
<1> QED BY <1>1, <1>6, <1>8, <1>10, LocalStep

LEMMA FindNextIInv ==
    ASSUME IInv, NEW t \in Thread, FindNext(t)
    PROVE  IInv' /\ Evolves
<1> DEFINE me == local[t]
<1>1. UNCHANGED shared /\ size' = size /\ calls' \in 0 .. MaxCalls
  BY IdleShared, ThreadFacts DEF idle, FindNext
<1>2. me.pc = "findStep" /\ me.key \in Key /\ me.right < me.key /\ me \in Locals
  BY ThreadFacts, LocalFacts DEF FindNext, At
<1>3. me.at \in Nodes /\ me.at < me.key /\ me.right \in Linked \cup {MaxNode} /\ me.seen = "null"
  BY <1>2, ThreadFacts DEF Writes, QuerySteps
<1>4. me.right \in Linked /\ me.right \in MinNode .. MaxNode
  <2>1. me.key \in Nat /\ me.key < MaxNode /\ MaxNode \in Nat
    BY <1>2, KeyFacts
  <2>2. ASSUME me.right = MaxNode PROVE FALSE
    BY <2>1, <2>2, <1>2
  <2> QED BY <2>2, <1>2, <1>3, LocalFacts
<1>11. next[me.right] \in Linked \cup {MaxNode} /\ next[me.right] \in MinNode .. MaxNode
  BY <1>4, ThreadFacts, NodeFacts, KeyFacts DEF List
<1>5. PICK r : r = [me EXCEPT !.at = me.right, !.right = next[me.right]]
  OBVIOUS
<1>6. local' = [local EXCEPT ![t] = r]
  BY <1>5, ThreadFacts DEF FindNext
<1> HIDE DEF me
<1>8. /\ r \in Locals /\ r.pc = me.pc /\ r.at = me.right /\ r.right = next[me.right]
      /\ r.key = me.key /\ r.seen = me.seen
  BY <1>2, <1>4, <1>5, <1>11 DEF Locals
<1>9. Writes(r)
  BY <1>2, <1>3, <1>4, <1>8, <1>11, NodeFacts DEF Writes, PlainSteps, NodeSteps, LoadedSteps
<1>10. Inv(r) /\ r.pc \notin CountSteps /\ me.pc \notin CountSteps
  BY <1>2, <1>8, <1>9 DEF Inv, Collects, Queries, CollectSteps, QuerySteps, CountSteps
<1> QED BY <1>1, <1>6, <1>8, <1>10, LocalStep DEF me

\* A call that has found its node.
LEMMA ContinueRead ==
    ASSUME IInv, NEW t \in Thread, UNCHANGED <<idle, calls>>, local[t].pc \notin CountSteps,
           local[t].key \in Linked, Continue(t, "read")
    PROVE  IInv' /\ Evolves
<1>1. UNCHANGED shared /\ size' = size /\ calls' \in 0 .. MaxCalls
  BY IdleShared, ThreadFacts DEF idle
<1>2. "read" \in PC
  BY DEF PC, WriteSteps
<1>3. PICK r \in Locals : local' = [local EXCEPT ![t] = r] /\ r.pc = "read" /\ Afresh(r, local[t])
  BY <1>2, ContinueFacts
<1>4. Writes(r)
  BY <1>3 DEF Writes, Afresh, PlainSteps, NodeSteps, LoadedSteps
<1>5. Inv(r) /\ r.pc \notin CountSteps
  BY <1>3, <1>4 DEF Inv, Collects, Queries, CollectSteps, QuerySteps, CountSteps
<1> QED BY <1>1, <1>3, <1>5, LocalStep

LEMMA FindEndIInv ==
    ASSUME IInv, NEW t \in Thread, FindEnd(t)
    PROVE  IInv' /\ Evolves
<1>0. UNCHANGED <<idle, calls>> /\ local[t].pc = "findStep" /\ local[t].pc \notin CountSteps
  BY DEF FindEnd, At, idle, CountSteps
<1>1. UNCHANGED shared /\ size' = size /\ calls' \in 0 .. MaxCalls
  BY <1>0, IdleShared, ThreadFacts DEF idle
<1>2. /\ local[t].at \in Nodes /\ local[t].at < local[t].key /\ local[t].right \in Linked \cup {MaxNode}
      /\ local[t].seen = "null" /\ local[t].key \in Key
  BY <1>0, ThreadFacts, LocalFacts DEF Writes, QuerySteps
<1>3. CASE local[t].right = local[t].key /\ Continue(t, "read")
  <2>1. local[t].key \in Linked
    BY <1>2, <1>3, KeyFacts
  <2> QED BY <2>1, <1>0, <1>3, ContinueRead
<1>4. CASE local[t].right > local[t].key /\ Goto(t, "link")
  <2>1. "link" \in PC
    BY DEF PC, WriteSteps
  <2>2. PICK r \in Locals : local' = [local EXCEPT ![t] = r] /\ r.pc = "link" /\ Alike(r, local[t])
    BY <2>1, <1>4, GotoFacts
  <2>3. local[t].right \in Nat /\ local[t].key \in Nat
    BY <1>2, NodeFacts, KeyFacts
  <2>4. local[t].key < local[t].right
    BY <2>3, <1>4
  <2>5. Writes(r)
    BY <2>2, <2>4, <1>2 DEF Writes, Alike, PlainSteps, NodeSteps, LoadedSteps
  <2>6. Inv(r) /\ r.pc \notin CountSteps
    BY <2>2, <2>5 DEF Inv, Collects, Queries, CollectSteps, QuerySteps, CountSteps
  <2> QED BY <2>2, <2>6, <1>0, <1>1, LocalStep
<1>5. CASE Return(t)
  BY <1>0, <1>5, ReturnStep
<1> QED BY <1>3, <1>4, <1>5 DEF FindEnd

LEMMA LoadThenIInv ==
    ASSUME IInv, NEW t \in Thread, NEW p \in {"readStamp", "vStamp", "linkStamp"},
           NEW q \in {"read", "vCAS", "linked"}, q = "linked" <=> p = "linkStamp",
           LoadThen(t, q, vhead[local[t].key], p)
    PROVE  IInv' /\ Evolves
<1> DEFINE me == local[t]
           h == vhead[local[t].key]
<1>1. UNCHANGED shared /\ size' = size /\ calls' \in 0 .. MaxCalls
  BY IdleShared, ThreadFacts DEF idle, LoadThen
<1>2. me.pc = q /\ me.key \in Key /\ me \in Locals
  BY ThreadFacts, LocalFacts DEF LoadThen, At
<1>3. me.key \in Linked /\ me.seen = "null"
  BY <1>2, ThreadFacts DEF Writes, QuerySteps, NodeSteps
<1>4. h \in VersionId /\ h \in Chain(h)
  <2>1. h \in VersionId
    BY <1>2, ThreadFacts DEF Shared
  <2>2. h # 0
    BY <1>3 DEF Linked
  <2> QED BY <2>1, <2>2, ThreadFacts, ChainFacts
<1>5. PICK r : r = [me EXCEPT !.pc = p, !.node = h]
  OBVIOUS
<1>6. local' = [local EXCEPT ![t] = r]
  BY <1>5, ThreadFacts DEF LoadThen
<1>7. p \in PC
  BY DEF PC, WriteSteps
<1> HIDE DEF me
<1>8. r \in Locals /\ r.pc = p /\ r.node = h /\ r.key = me.key /\ r.seen = me.seen
  BY <1>2, <1>4, <1>5, <1>7 DEF Locals, PC
<1>9. Writes(r)
  <2>1. r.node \in Chain(vhead[r.key]) /\ r.key \in Linked
    BY <1>3, <1>4, <1>8 DEF me
  <2> QED BY <2>1, <1>3, <1>8 DEF Writes, PlainSteps, NodeSteps, LoadedSteps
<1>10. Inv(r)
  BY <1>8, <1>9 DEF Inv, Collects, Queries, CollectSteps, QuerySteps
<1>11. r.pc \in CountSteps <=> me.pc \in CountSteps
  BY <1>2, <1>8 DEF CountSteps
<1> QED BY <1>1, <1>6, <1>8, <1>10, <1>11, LocalStep DEF me

LEMMA LoadIInv == ASSUME IInv, NEW t \in Thread, Load(t) PROVE IInv' /\ Evolves
<1>1. CASE LoadThen(t, "read", vhead[local[t].key], "readStamp")
  BY <1>1, LoadThenIInv
<1>2. CASE LoadThen(t, "vCAS", vhead[local[t].key], "vStamp")
  BY <1>2, LoadThenIInv
<1>3. CASE LoadThen(t, "linked", vhead[local[t].key], "linkStamp")
  BY <1>3, LoadThenIInv
<1> QED BY <1>1, <1>2, <1>3 DEF Load

LEMMA ReadValueIInv == ASSUME IInv, NEW t \in Thread, ReadValue(t) PROVE IInv' /\ Evolves
<1>0. UNCHANGED <<idle, calls>> /\ local[t].pc = "readValue" /\ local[t].pc \notin CountSteps
  BY DEF ReadValue, At, idle, CountSteps
<1>1. UNCHANGED shared /\ size' = size /\ calls' \in 0 .. MaxCalls
  BY <1>0, IdleShared, ThreadFacts DEF idle
<1>2. local[t].key \in Linked /\ local[t].key \in Key /\ local[t].seen = "null"
  BY <1>0, ThreadFacts, LocalFacts DEF Writes, NodeSteps, QuerySteps
<1>3. vhead[local[t].key] \in Version
  BY <1>2, ThreadFacts, VersionFacts DEF Linked, Shared
<1>4. PICK v : v = vnodes[vhead[local[t].key]].val
  OBVIOUS
<1>5. v \in Value \cup {Removed}
  BY <1>3, <1>4, ThreadFacts, VersionFacts
<1>6. CASE v = local[t].new
  <2>1. Return(t)
    BY <1>4, <1>6 DEF ReadValue
  <2> QED BY <2>1, <1>0, ReturnStep
<1>7. CASE v # local[t].new
  <2>1. PICK r : r = [local[t] EXCEPT !.pc = "vCAS", !.node = 0, !.old = v]
    OBVIOUS
  <2>2. local' = [local EXCEPT ![t] = r]
    BY <2>1, <1>4, <1>7, ThreadFacts DEF ReadValue
  <2>3. "vCAS" \in PC /\ 0 \in VersionId
    BY ThreadFacts, VersionFacts DEF PC, WriteSteps, VersionId
  <2>4. r \in Locals /\ r.pc = "vCAS" /\ r.key = local[t].key /\ r.seen = local[t].seen
    BY <2>1, <2>3, <1>5, ThreadFacts DEF Locals, PC
  <2>5. Writes(r)
    BY <2>4, <1>2 DEF Writes, PlainSteps, NodeSteps, LoadedSteps
  <2>6. Inv(r) /\ r.pc \notin CountSteps
    BY <2>4, <2>5 DEF Inv, Collects, Queries, CollectSteps, QuerySteps, CountSteps
  <2> QED BY <2>2, <2>4, <2>6, <1>0, <1>1, LocalStep
<1> QED BY <1>6, <1>7

LEMMA PushFailsIInv == ASSUME IInv, NEW t \in Thread, PushFails(t) PROVE IInv' /\ Evolves
<1>1. UNCHANGED <<idle, calls>> /\ local[t].pc = "push" /\ Continue(t, "read")
  BY DEF PushFails, At, idle
<1>2. local[t].key \in Linked /\ local[t].pc \notin CountSteps
  BY <1>1, ThreadFacts DEF Writes, NodeSteps, CountSteps
<1> QED BY <1>1, <1>2, ContinueRead

LEMMA CollectBeginIInv == ASSUME IInv, NEW t \in Thread, CollectBegin(t) PROVE IInv' /\ Evolves
<1>0. UNCHANGED <<idle, calls>> /\ local[t].pc = "collect" /\ Goto(t, "freeze") /\ local[t].pc \notin CountSteps
  BY DEF CollectBegin, CollectIf, At, idle, CountSteps
<1>1. UNCHANGED shared /\ size' = size /\ calls' \in 0 .. MaxCalls
  BY <1>0, IdleShared, ThreadFacts DEF idle
<1>2. "freeze" \in PC
  BY DEF PC, WriteSteps
<1>3. PICK r \in Locals : local' = [local EXCEPT ![t] = r] /\ r.pc = "freeze" /\ Alike(r, local[t])
  BY <1>0, <1>2, GotoFacts
<1>4. r.at = MinNode /\ r.got = NoVersions /\ r.seen = "null"
  BY <1>0, <1>3, ThreadFacts DEF Writes, PlainSteps, QuerySteps, Alike
<1>5. /\ \A n \in Nodes : ~(n < MinNode)
      /\ \A k \in Key : ~(k < MinNode) /\ NoVersions[k] = 0
  BY KeyFacts, NodeFacts DEF NoVersions, MinNode
<1>6. Collects(r)
  BY <1>3, <1>4, <1>5, NodeFacts DEF Collects
<1>7. Inv(r) /\ r.pc \notin CountSteps
  BY <1>3, <1>4, <1>6
     DEF Inv, Writes, Queries, PlainSteps, NodeSteps, LoadedSteps, QuerySteps, CountSteps
<1> QED BY <1>0, <1>1, <1>3, <1>7, LocalStep

\* A collect that has frozen node me.at, and has its versions, goes on.
LEMMA AdvanceFits ==
    ASSUME Position, NEW me \in Locals, me.at \in Nodes, me.seen = "null",
           NEW got \in [Key -> VersionId], NEW r, r = Advance(me, got),
           \A k \in Key : got[k] # 0 <=> k \in Linked /\ k <= me.at,
           \A k \in Linked : k <= me.at => Chain(vhead[k]) \ late[k] \subseteq Chain(got[k])
    PROVE  /\ r \in Locals /\ r.pc \in {"freeze", "swap"} /\ Writes(r) /\ Queries(r)
           /\ r.pc = "freeze" => r.at \in Nodes
           /\ r.pc = "swap" => r.at = MaxNode
           /\ \A n \in Nodes : n < r.at => n < me.at \/ n = me.at
           /\ \A k \in Key : r.got[k] # 0 <=> k \in Linked /\ k < r.at
           /\ \A k \in Linked : k < r.at => Chain(vhead[k]) \ late[k] \subseteq Chain(r.got[k])
<1> DEFINE nx == next[me.at]
<1>1. /\ nx \in Linked \cup {MaxNode} /\ me.at < nx /\ \A k \in Linked : me.at < k => nx <= k
  BY DEF Position, List
<1>2. nx \in Nat /\ me.at \in Nat /\ nx \in MinNode .. MaxNode
  BY <1>1, NodeFacts, KeyFacts
<1>3. PICK p : p = IF nx = MaxNode THEN "swap" ELSE "freeze"
  OBVIOUS
<1>4. p \in PC /\ p \in {"swap", "freeze"} /\ (p = "freeze" => nx \in Linked) /\ (p = "swap" => nx = MaxNode)
  BY <1>1, <1>3 DEF PC, WriteSteps
<1>5. r = [me EXCEPT !.pc = p, !.at = nx, !.got = got]
  BY <1>3 DEF Advance
<1> HIDE DEF nx
<1>6. r \in Locals /\ r.pc = p /\ r.at = nx /\ r.got = got /\ r.seen = me.seen
  BY <1>2, <1>4, <1>5 DEF Locals, PC
<1>7. ASSUME NEW n \in Nodes PROVE n < nx <=> n <= me.at
  <2>1. n \in Nat /\ me.at \in Nat
    BY NodeFacts
  <2>2. n \in Linked \/ n = MinNode
    BY DEF Nodes
  <2>3. CASE n \in Linked
    <3>1. me.at < n => nx <= n
      BY <2>3, <1>1 DEF nx
    <3>2. me.at < nx
      BY <1>1 DEF nx
    <3> QED BY <3>1, <3>2, <2>1, <1>2
  <2>4. CASE n = MinNode
    <3>2. me.at < nx
      BY <1>1 DEF nx
    <3> QED BY <3>2, <2>4, <2>1, <1>2 DEF MinNode
  <2> QED BY <2>2, <2>3, <2>4
<1>8. ASSUME NEW n \in Nodes, n < nx PROVE n < me.at \/ n = me.at
  <2>1. n \in Nat /\ me.at \in Nat /\ n <= me.at
    BY <1>7, <1>8, NodeFacts
  <2> QED BY <2>1
<1>9. ASSUME NEW k \in Key PROVE got[k] # 0 <=> k \in Linked /\ k < nx
  BY <1>7, NodeFacts
<1>10. ASSUME NEW k \in Linked, k < nx PROVE Chain(vhead[k]) \ late[k] \subseteq Chain(got[k])
  BY <1>7, <1>10, NodeFacts
<1>11. p = "freeze" => nx \in Nodes
  BY <1>4, NodeFacts
<1>12. Writes(r)
  BY <1>4, <1>6 DEF Writes, PlainSteps, NodeSteps, LoadedSteps
<1>13. Queries(r)
  BY <1>4, <1>6 DEF Queries, QuerySteps
<1> QED BY <1>4, <1>6, <1>8, <1>9, <1>10, <1>11, <1>12, <1>13

LEMMA TakeIInv == ASSUME IInv, NEW t \in Thread, Take(t) PROVE IInv' /\ Evolves
<1>0. UNCHANGED <<idle, calls>> /\ local[t].pc = "take" /\ local[t].pc \notin CountSteps
  BY DEF Take, TakeVersion, At, idle, CountSteps
<1>1. UNCHANGED shared /\ size' = size /\ calls' \in 0 .. MaxCalls
  BY <1>0, IdleShared, ThreadFacts DEF idle
<1>2. PICK me : me = local[t]
  OBVIOUS
<1>3. /\ me \in Locals /\ me.pc = "take" /\ me.pc \in CollectSteps /\ me.seen = "null"
      /\ me.at \in Linked /\ me.at \in frozen /\ me.got \in [Key -> VersionId]
      /\ \A n \in Nodes : n < me.at => n \in frozen
      /\ \A k \in Key : me.got[k] # 0 <=> k \in Linked /\ k < me.at
      /\ \A k \in Linked : k < me.at => Chain(vhead[k]) \ late[k] \subseteq Chain(me.got[k])
  BY <1>0, <1>2, ThreadFacts, LocalFacts DEF Collects, Writes, CollectSteps, QuerySteps
<1>4. me.at \in Nodes /\ me.at \in Key /\ me.at \in Nat /\ vhead[me.at] # 0 /\ vhead[me.at] \in VersionId
  BY <1>3, NodeFacts, ThreadFacts DEF Linked, Shared
<1>5. PICK got : got = [me.got EXCEPT ![me.at] = vhead[me.at]]
  OBVIOUS
<1>6. got \in [Key -> VersionId] /\ got[me.at] = vhead[me.at] /\ \A k \in Key : k # me.at => got[k] = me.got[k]
  BY <1>3, <1>4, <1>5
<1>7. \A k \in Key : k <= me.at <=> k < me.at \/ k = me.at
  BY <1>4, KeyFacts
<1>8. \A k \in Key : got[k] # 0 <=> k \in Linked /\ k <= me.at
  <2> SUFFICES ASSUME NEW k \in Key PROVE got[k] # 0 <=> k \in Linked /\ k <= me.at
    OBVIOUS
  <2>1. CASE k = me.at
    BY <2>1, <1>3, <1>4, <1>6, <1>7
  <2>2. CASE k # me.at
    BY <2>2, <1>3, <1>6, <1>7
  <2> QED BY <2>1, <2>2
<1>9. \A k \in Linked : k <= me.at => Chain(vhead[k]) \ late[k] \subseteq Chain(got[k])
  <2> SUFFICES ASSUME NEW k \in Linked, k <= me.at PROVE Chain(vhead[k]) \ late[k] \subseteq Chain(got[k])
    OBVIOUS
  <2>0. k \in Key
    BY NodeFacts
  <2>1. CASE k = me.at
    BY <2>1, <1>6
  <2>2. CASE k # me.at
    <3>1. k < me.at /\ got[k] = me.got[k]
      BY <2>0, <2>2, <1>6, <1>7
    <3> QED BY <3>1, <1>3
  <2> QED BY <2>1, <2>2
<1>10. PICK r : r = Advance(me, got)
  OBVIOUS
<1>13. /\ r \in Locals /\ r.pc \in {"freeze", "swap"} /\ Writes(r) /\ Queries(r)
       /\ r.pc = "freeze" => r.at \in Nodes
       /\ r.pc = "swap" => r.at = MaxNode
       /\ \A n \in Nodes : n < r.at => n < me.at \/ n = me.at
       /\ \A k \in Key : r.got[k] # 0 <=> k \in Linked /\ k < r.at
       /\ \A k \in Linked : k < r.at => Chain(vhead[k]) \ late[k] \subseteq Chain(r.got[k])
  BY <1>3, <1>4, <1>6, <1>8, <1>9, <1>10, AdvanceFits, ThreadFacts
<1>14. Collects(r)
  BY <1>3, <1>13 DEF Collects
<1>11. r \in Locals /\ Inv(r) /\ r.pc \notin CountSteps
  BY <1>13, <1>14 DEF Inv, CountSteps
<1>12. local' = [local EXCEPT ![t] = r]
  BY <1>2, <1>5, <1>10 DEF Take, TakeVersion
<1> QED BY <1>0, <1>1, <1>11, <1>12, LocalStep

-----------------------------------------------------------------------------
(* The steps of a range query *)

LEMMA AfterFacts ==
    ASSUME trained \subseteq Key, NEW n \in Nat, n < MaxNode
    PROVE  After(n) \in trained \cup {MaxNode} /\ n < After(n) /\ \A k \in trained : n < k => After(n) <= k
<1> DEFINE T == {j \in trained : j > n} \cup {MaxNode}
<1>1. T \subseteq Nat /\ T # {}
  BY KeyFacts
<1>2. After(n) = Min(T)
  BY DEF After
<1>3. Min(T) \in T /\ \A y \in T : Min(T) <= y
  BY <1>1, MinIn
<1>4. ASSUME NEW k \in trained, n < k PROVE k \in T
  <2>1. k > n
    BY <1>4, KeyFacts
  <2> QED BY <2>1
<1>5. \A j \in T : n < j /\ j \in trained \cup {MaxNode}
  <2> SUFFICES ASSUME NEW j \in T PROVE n < j /\ j \in trained \cup {MaxNode}
    OBVIOUS
  <2>1. j \in Nat
    BY <1>1
  <2> QED BY <2>1
<1> HIDE DEF T
<1> QED BY <1>2, <1>3, <1>4, <1>5

\* A key without a node has no update that a query could look for.
LEMMA TickLinked ==
    ASSUME Completed, NEW me, Queries(me), me.pc \in QuerySteps, NEW k \in Key, k \notin Linked
    PROVE  me.tick[k] = {}
BY DEF Completed, Queries

LEMMA QueryMobIInv == ASSUME IInv, NEW t \in Thread, QueryMob(t) PROVE IInv' /\ Evolves
<1>0. UNCHANGED <<idle, calls>> /\ local[t].pc = "qMob" /\ local[t].pc \notin CountSteps
  BY DEF QueryMob, At, idle, CountSteps
<1>1. UNCHANGED shared /\ size' = size /\ calls' \in 0 .. MaxCalls
  BY <1>0, IdleShared, ThreadFacts DEF idle
<1>2. PICK me : me = local[t]
  OBVIOUS
<1>3. me \in Locals /\ me.pc = "qMob" /\ me.pc \in QuerySteps /\ Queries(me)
  BY <1>0, <1>2, ThreadFacts DEF QuerySteps
<1>4. \A k \in Key : \A i \in me.tick[k] : i \in done[k] /\ vnodes[i].ts < me.qts
  BY <1>3 DEF Queries
<1>5. PICK p : p = IF mob = "bin" THEN "qHead" ELSE "qNext"
  OBVIOUS
<1>6. PICK a : a = IF mob = "bin" THEN MinNode ELSE After(MinNode)
  OBVIOUS
<1>7. PICK m : m = mob
  OBVIOUS
<1>8. After(MinNode) \in trained \cup {MaxNode} /\ \A k \in trained : MinNode < k => After(MinNode) <= k
  BY AfterFacts, ThreadFacts, KeyFacts DEF Shared
<1>9. m = "null" \/ m = "bin" \/ m = "model"
  BY <1>7, ThreadFacts DEF Shared, Mobs
<1>10. trained \subseteq Key /\ a \in MinNode .. MaxNode
  BY <1>6, <1>8, KeyFacts, ThreadFacts DEF Shared
<1>11. PICK r : r = [me EXCEPT !.seen = m, !.pc = p, !.at = a]
  OBVIOUS
<1>12. local' = [local EXCEPT ![t] = r]
  BY <1>2, <1>5, <1>6, <1>7, <1>11, ThreadFacts DEF QueryMob
<1>13. p \in PC /\ p \in {"qHead", "qNext"} /\ m \in Mobs
  BY <1>5, <1>9 DEF PC, QuerySteps, Mobs
<1>14. r \in Locals /\ r.pc = p /\ r.at = a /\ r.seen = m /\ r.tick = me.tick /\ r.qts = me.qts
  BY <1>3, <1>10, <1>11, <1>13 DEF Locals, PC
<1>15. Read(r) /\ (p = "qNext" => a = MaxNode \/ (m # "null" /\ a \in Linked))
  <2>1. CASE m = "null"
    <3>1. a = MaxNode
      BY <2>1, <1>6, <1>7, <1>8, ThreadFacts DEF Modelled
    <3> QED BY <3>1, <2>1, <1>14 DEF Read
  <2>2. CASE m = "bin"
    <3>1. a = MinNode /\ p = "qHead" /\ \A k \in Key : ~(k < a)
      BY <2>2, <1>5, <1>6, <1>7, KeyFacts DEF MinNode
    <3> QED BY <3>1, <1>14 DEF Read
  <2>3. CASE m = "model"
    <3>1. trained = Linked /\ a = After(MinNode)
      BY <2>3, <1>6, <1>7, ThreadFacts DEF Modelled
    <3>2. ASSUME NEW k \in Key, k < a PROVE k \notin Linked
      <4>1. k \in Nat /\ a \in Nat /\ MinNode < k
        BY <1>10, KeyFacts
      <4> QED BY <4>1, <3>1, <3>2, <1>8
    <3>3. ASSUME NEW k \in Key, k < a PROVE r.tick[k] = {}
      BY <3>2, <3>3, <1>3, <1>14, TickLinked, ThreadFacts
    <3> QED BY <3>1, <3>3, <2>3, <1>8, <1>14 DEF Read
  <2> QED BY <2>1, <2>2, <2>3, <1>9
<1>16. ASSUME m = "bin", NEW k \in Key PROVE r.tick[k] \subseteq Chain(vhead[k])
  <2>1. done[k] \subseteq Chain(vhead[k])
    BY <1>7, <1>16, ThreadFacts DEF Completed
  <2> QED BY <2>1, <1>4, <1>14
<1>17. Queries(r)
  <2>1. m = "model" => mob = "model"
    BY <1>7
  <2>2. p = "qHead" => m = "bin" /\ a = MinNode
    BY <1>5, <1>6, <1>7
  <2>3. \A k \in Key : \A i \in r.tick[k] : i \in done[k] /\ vnodes[i].ts < r.qts
    BY <1>4, <1>14
  <2> QED BY <2>1, <2>2, <2>3, <1>13, <1>14, <1>15, <1>16 DEF Queries
<1>18. Inv(r) /\ r.pc \notin CountSteps
  BY <1>13, <1>14, <1>17 DEF Inv, Writes, Collects, PlainSteps, NodeSteps, LoadedSteps, CollectSteps,
     QuerySteps, CountSteps
<1> QED BY <1>0, <1>1, <1>12, <1>14, <1>18, LocalStep

LEMMA QueryHeadIInv == ASSUME IInv, NEW t \in Thread, QueryHead(t) PROVE IInv' /\ Evolves
<1>0. UNCHANGED <<idle, calls>> /\ local[t].pc = "qHead" /\ local[t].pc \notin CountSteps
  BY DEF QueryHead, At, idle, CountSteps
<1>1. UNCHANGED shared /\ size' = size /\ calls' \in 0 .. MaxCalls
  BY <1>0, IdleShared, ThreadFacts DEF idle
<1>2. PICK me : me = local[t]
  OBVIOUS
<1>3. me \in Locals /\ me.pc = "qHead" /\ me.pc \in QuerySteps /\ Queries(me)
  BY <1>0, <1>2, ThreadFacts DEF QuerySteps
<1>4. /\ me.seen = "bin"
      /\ \A k \in Key : \A i \in me.tick[k] : i \in done[k] /\ vnodes[i].ts < me.qts
      /\ \A k \in Key : me.tick[k] \subseteq Chain(vhead[k])
  BY <1>3 DEF Queries
<1>5. PICK a : a = next[MinNode]
  OBVIOUS
<1>6. a \in Linked \cup {MaxNode} /\ a \in MinNode .. MaxNode /\ \A k \in Linked : MinNode < k => a <= k
  BY <1>5, ThreadFacts, NodeFacts, KeyFacts DEF List
<1>7. PICK r : r = [me EXCEPT !.pc = "qNext", !.at = a]
  OBVIOUS
<1>8. local' = [local EXCEPT ![t] = r]
  BY <1>2, <1>5, <1>7, ThreadFacts DEF QueryHead
<1>9. "qNext" \in PC
  BY DEF PC, QuerySteps
<1>10. r \in Locals /\ r.pc = "qNext" /\ r.at = a /\ r.seen = me.seen /\ r.tick = me.tick /\ r.qts = me.qts
  BY <1>3, <1>6, <1>7, <1>9 DEF Locals, PC
<1>11. Read(r)
  <2>1. ASSUME NEW k \in Key, k < a PROVE r.tick[k] = {}
    <3>1. k \in Nat /\ a \in Nat /\ MinNode < k
      BY <1>6, KeyFacts
    <3>2. k \notin Linked
      BY <3>1, <2>1, <1>6
    <3> QED BY <3>2, <1>3, <1>10, TickLinked, ThreadFacts
  <2> QED BY <2>1, <1>10 DEF Read
<1>12. Queries(r)
  BY <1>4, <1>6, <1>10, <1>11 DEF Queries
<1>13. Inv(r) /\ r.pc \notin CountSteps
  BY <1>10, <1>12 DEF Inv, Writes, Collects, PlainSteps, NodeSteps, LoadedSteps, CollectSteps,
     QuerySteps, CountSteps
<1> QED BY <1>0, <1>1, <1>8, <1>10, <1>13, LocalStep

LEMMA QueryNextIInv == ASSUME IInv, NEW t \in Thread, QueryNext(t) PROVE IInv' /\ Evolves
<1>0. UNCHANGED <<idle, calls>> /\ local[t].pc = "qNext" /\ local[t].pc \notin CountSteps
  BY DEF QueryNext, At, idle, CountSteps
<1>1. UNCHANGED shared /\ size' = size /\ calls' \in 0 .. MaxCalls
  BY <1>0, IdleShared, ThreadFacts DEF idle
<1>2. PICK me : me = local[t]
  OBVIOUS
<1>3. me \in Locals /\ me.pc = "qNext" /\ me.pc \in QuerySteps /\ Queries(me) /\ me.at # MaxNode
  BY <1>0, <1>2, ThreadFacts DEF QuerySteps, QueryNext
<1>4. /\ me.seen # "null" /\ me.at \in Linked
      /\ \A k \in Key : \A i \in me.tick[k] : i \in done[k] /\ vnodes[i].ts < me.qts
      /\ me.seen = "model" => mob = "model"
      /\ me.seen = "bin" => \A k \in Key : me.tick[k] \subseteq Chain(vhead[k])
      /\ Read(me)
  BY <1>3 DEF Queries
<1>5. me.at \in Nodes /\ me.at \in Nat /\ me.at < MaxNode
  BY <1>4, NodeFacts
<1>6. PICK b : b = IF me.seen = "model" THEN After(me.at) ELSE next[me.at]
  OBVIOUS
<1>7. b \in Linked \cup {MaxNode} /\ me.at < b /\ \A k \in Linked : me.at < k => b <= k
  <2>1. CASE me.seen = "model"
    <3>1. trained = Linked /\ trained \subseteq Key
      BY <2>1, <1>4, ThreadFacts DEF Modelled, Shared
    <3> QED BY <3>1, <2>1, <1>5, <1>6, AfterFacts
  <2>2. CASE me.seen # "model"
    BY <2>2, <1>5, <1>6, ThreadFacts DEF List
  <2> QED BY <2>1, <2>2
<1>8. b \in Nat /\ b \in MinNode .. MaxNode
  BY <1>7, NodeFacts, KeyFacts
<1>9. PICK r : r = [me EXCEPT !.pc = "qLoad", !.right = b]
  OBVIOUS
<1>10. local' = [local EXCEPT ![t] = r]
  BY <1>2, <1>6, <1>9, ThreadFacts DEF QueryNext
<1>11. "qLoad" \in PC
  BY DEF PC, QuerySteps
<1>12. /\ r \in Locals /\ r.pc = "qLoad" /\ r.at = me.at /\ r.right = b /\ r.seen = me.seen
       /\ r.tick = me.tick /\ r.qts = me.qts /\ r.got = me.got
  BY <1>3, <1>8, <1>9, <1>11 DEF Locals, PC
<1>13. ASSUME NEW k \in Key, me.at < k, k < b PROVE me.tick[k] = {}
  <2>1. k \in Nat
    BY KeyFacts
  <2>2. k \notin Linked
    BY <2>1, <1>7, <1>8, <1>13
  <2> QED BY <2>2, <1>3, TickLinked, ThreadFacts
<1>14. Read(r)
  BY <1>4, <1>12 DEF Read
<1>15. Queries(r)
  BY <1>4, <1>7, <1>12, <1>13, <1>14 DEF Queries
<1>16. Inv(r) /\ r.pc \notin CountSteps
  BY <1>12, <1>15 DEF Inv, Writes, Collects, PlainSteps, NodeSteps, LoadedSteps, CollectSteps,
     QuerySteps, CountSteps
<1> QED BY <1>0, <1>1, <1>10, <1>12, <1>16, LocalStep

LEMMA QueryLoadIInv == ASSUME IInv, NEW t \in Thread, QueryLoad(t) PROVE IInv' /\ Evolves
<1>0. UNCHANGED <<idle, calls>> /\ local[t].pc = "qLoad" /\ local[t].pc \notin CountSteps
  BY DEF QueryLoad, LoadThen, At, idle, CountSteps
<1>1. UNCHANGED shared /\ size' = size /\ calls' \in 0 .. MaxCalls
  BY <1>0, IdleShared, ThreadFacts DEF idle
<1>2. PICK me : me = local[t]
  OBVIOUS
<1>3. me \in Locals /\ me.pc = "qLoad" /\ me.pc \in QuerySteps /\ Queries(me) /\ me.seen \in Mobs
  BY <1>0, <1>2, ThreadFacts, LocalFacts DEF QuerySteps
<1>4. /\ me.seen # "null" /\ me.at \in Linked /\ me.right \in Linked \cup {MaxNode} /\ me.at < me.right
      /\ \A k \in Key : \A i \in me.tick[k] : i \in done[k] /\ vnodes[i].ts < me.qts
      /\ me.seen = "model" => mob = "model"
      /\ me.seen = "bin" => \A k \in Key : me.tick[k] \subseteq Chain(vhead[k])
      /\ \A k \in Key : me.at < k /\ k < me.right => me.tick[k] = {}
      /\ Read(me)
  BY <1>3 DEF Queries
<1>5. me.at \in Key /\ vhead[me.at] # 0 /\ vhead[me.at] \in VersionId /\ mhead[me.at] \in VersionId
  BY <1>4, ThreadFacts DEF Linked, Shared
<1>6. PICK h : h = IF me.seen = "model" THEN mhead[me.at] ELSE vhead[me.at]
  OBVIOUS
<1>7. h \in VersionId /\ h # 0 /\ \A i \in me.tick[me.at] : OnList(i, me.at, h)
  <2>1. CASE me.seen = "model"
    <3>1. mhead[me.at] # 0 /\ mob = "model" /\ h = mhead[me.at]
      BY <2>1, <1>4, <1>6, ThreadFacts DEF Modelled
    <3> QED BY <3>1, <1>5 DEF OnList
  <2>2. CASE me.seen # "model"
    <3>1. me.seen = "bin" /\ h = vhead[me.at]
      BY <2>2, <1>3, <1>4, <1>6 DEF Mobs
    <3>2. me.tick[me.at] \subseteq Chain(h)
      BY <3>1, <1>4, <1>5
    <3> QED BY <3>1, <3>2, <1>5 DEF OnList
  <2> QED BY <2>1, <2>2
<1>8. PICK r : r = [me EXCEPT !.pc = "qStamp", !.node = h]
  OBVIOUS
<1>9. local' = [local EXCEPT ![t] = r]
  BY <1>2, <1>6, <1>8, ThreadFacts DEF QueryLoad, LoadThen
<1>10. "qStamp" \in PC
  BY DEF PC, QuerySteps
<1>11. /\ r \in Locals /\ r.pc = "qStamp" /\ r.at = me.at /\ r.right = me.right /\ r.seen = me.seen
       /\ r.node = h /\ r.tick = me.tick /\ r.qts = me.qts /\ r.got = me.got
  BY <1>3, <1>7, <1>8, <1>10 DEF Locals, PC
<1>12. Read(r)
  BY <1>4, <1>11 DEF Read
<1>13. Queries(r)
  BY <1>4, <1>7, <1>11, <1>12 DEF Queries
<1>14. Inv(r) /\ r.pc \notin CountSteps
  BY <1>11, <1>13 DEF Inv, Writes, Collects, PlainSteps, NodeSteps, LoadedSteps, CollectSteps,
     QuerySteps, CountSteps
<1> QED BY <1>0, <1>1, <1>9, <1>11, <1>14, LocalStep

-----------------------------------------------------------------------------
(* The steps that change the position *)

LEMMA CallQueryIInv == ASSUME IInv, NEW t \in Thread, CallQuery(t) PROVE IInv' /\ Evolves
<1>0. /\ local[t].pc = "idle" /\ clock < MaxClock /\ clock' = clock + 1
      /\ UNCHANGED <<mob, size, isReclaimed, next, frozen, vhead, vnodes, trained, mhead, calls, done, late, retired>>
  BY DEF CallQuery, At, flags, links, model, history
<1>1. clock \in Nat /\ clock <= clock' /\ clock' \in 0 .. MaxClock /\ clock' \in Nat /\ Len(vnodes) \in Nat
  BY <1>0, ThreadFacts, VersionFacts, UruvAssumption DEF Shared
<1>2. Linked' = Linked /\ VersionId' = VersionId /\ Version' = Version /\ Nodes' = Nodes
  BY <1>0 DEF Linked, VersionId, Version, Nodes
<1>3. Position'
  <2>1. Shared'
    BY <1>0, <1>1, <1>2, ThreadFacts DEF Shared
  <2>2. List'
    BY <1>0, <1>2, ThreadFacts DEF List
  <2>3. Lines'
    <3> SUFFICES ASSUME NEW i \in Version PROVE Below(i)'
      BY <1>2 DEF Lines
    <3>1. Below(i)
      BY ThreadFacts DEF Lines
    <3>2. vnodes'[i].ts \in Invalid .. clock'
      BY <3>1, <1>0, <1>1 DEF Below, Invalid
    <3> QED BY <3>1, <3>2, <1>0 DEF Below
  <2>4. Modelled' /\ Completed'
    BY <1>0, <1>2, ThreadFacts DEF Modelled, Completed, Chain
  <2> QED BY <2>1, <2>2, <2>3, <2>4 DEF Position
<1>4. Evolves
  BY <1>0, <1>1, <1>2 DEF Evolves, Chain
<1>5. PICK me : me = local[t]
  OBVIOUS
<1>6. /\ me \in Locals /\ me.pc = "idle" /\ me.at = MinNode /\ me.seen = "null"
      /\ me \in Locals'
  BY <1>0, <1>4, <1>5, ThreadFacts, LocalsGrow DEF Writes, PlainSteps, QuerySteps
<1>7. PICK r : r = [me EXCEPT !.pc = "qMob", !.qts = clock', !.tick = done]
  OBVIOUS
<1>8. local' = [local EXCEPT ![t] = r]
  BY <1>0, <1>5, <1>7, ThreadFacts DEF CallQuery
<1>9. "qMob" \in PC /\ clock' \in 0 .. clock' /\ done \in [Key -> SUBSET VersionId']
  <2>1. Version \subseteq VersionId'
    BY <1>2, ThreadFacts, VersionFacts
  <2>2. done \in [Key -> SUBSET Version]
    BY ThreadFacts DEF Shared
  <2>3. done \in [Key -> SUBSET VersionId']
    BY <2>1, <2>2
  <2> QED BY <2>3, <1>1 DEF PC, QuerySteps
<1>10. r \in Locals' /\ r.pc = "qMob" /\ r.seen = me.seen /\ r.tick = done /\ r.qts = clock'
  BY <1>6, <1>7, <1>9 DEF Locals, PC
<1>11. ASSUME NEW k \in Key, NEW i \in done[k] PROVE i \in done'[k] /\ vnodes'[i].ts < clock'
  <2>1. i \in Version
    BY ThreadFacts DEF Shared
  <2>2. vnodes[i].ts \in Invalid .. clock
    BY <2>1, ThreadFacts DEF Lines, Below
  <2> QED BY <2>2, <1>0, <1>1 DEF Invalid
<1>12. Queries(r)'
  BY <1>6, <1>10, <1>11 DEF Queries, Read
<1>13. Inv(r)' /\ r.pc \notin CountSteps /\ local[t].pc \notin CountSteps
  BY <1>0, <1>10, <1>12 DEF Inv, Writes, Collects, PlainSteps, NodeSteps, LoadedSteps, CollectSteps,
     QuerySteps, CountSteps
<1>14. Counted'
  BY <1>0, <1>2, <1>8, <1>13, CountedKept
<1> QED BY <1>3, <1>4, <1>8, <1>10, <1>13, <1>14, StepSuffices

LEMMA NewBinIInv == ASSUME IInv, NEW t \in Thread, NewBin(t) PROVE IInv' /\ Evolves
<1>0. /\ local[t].pc = "newBin" /\ mob = "null" /\ mob' = "bin" /\ Goto(t, "size")
      /\ UNCHANGED <<clock, size, isReclaimed, next, frozen, vhead, vnodes, trained, mhead, calls, done, late, retired>>
  BY DEF NewBin, At, flags, links, model, history
<1>1. clock \in Nat /\ Len(vnodes) \in Nat
  BY ThreadFacts, VersionFacts, UruvAssumption DEF Shared
<1>2. Linked' = Linked /\ VersionId' = VersionId /\ Version' = Version /\ Nodes' = Nodes
  BY <1>0 DEF Linked, VersionId, Version, Nodes
<1>3. Position'
  <2>1. Shared'
    BY <1>0, <1>2, ThreadFacts DEF Shared, Mobs
  <2>2. List' /\ Lines'
    BY <1>0, <1>2, ThreadFacts DEF List, Lines, Below
  <2>4. Modelled' /\ Completed'
    BY <1>0, <1>2, ThreadFacts DEF Modelled, Completed, Chain
  <2> QED BY <2>1, <2>2, <2>4 DEF Position
<1>4. Evolves
  BY <1>0, <1>1, <1>2 DEF Evolves, Chain
<1>5. "size" \in PC
  BY DEF PC, WriteSteps
<1>6. PICK r \in Locals : local' = [local EXCEPT ![t] = r] /\ r.pc = "size" /\ Alike(r, local[t])
  BY <1>0, <1>5, GotoFacts
<1>7. Inv(r)
  <2>1. local[t].at = MinNode /\ local[t].got = NoVersions /\ local[t].seen = "null"
    BY <1>0, ThreadFacts DEF Writes, PlainSteps, QuerySteps
  <2> QED BY <2>1, <1>6, PlainInv DEF Alike, PlainSteps
<1>8. r \in Locals' /\ Inv(r)'
  BY <1>4, <1>6, <1>7, LocalsGrow, Kept, ThreadFacts
<1>9. r.pc \notin CountSteps /\ local[t].pc \notin CountSteps
  BY <1>0, <1>6 DEF CountSteps
<1>10. Counted'
  BY <1>0, <1>2, <1>6, <1>9, CountedKept
<1> QED BY <1>3, <1>4, <1>6, <1>8, <1>10, StepSuffices

LEMMA FlagIInv == ASSUME IInv, NEW t \in Thread, Flag(t) PROVE IInv' /\ Evolves
<1>0. /\ local[t].pc = "flag" /\ isReclaimed' = TRUE /\ Goto(t, "reclaim")
      /\ UNCHANGED <<clock, mob, size, next, frozen, vhead, vnodes, trained, mhead, calls, done, late, retired>>
  BY DEF Flag, At, flags, links, model, history
<1>1. clock \in Nat /\ Len(vnodes) \in Nat
  BY ThreadFacts, VersionFacts, UruvAssumption DEF Shared
<1>2. Linked' = Linked /\ VersionId' = VersionId /\ Version' = Version /\ Nodes' = Nodes
  BY <1>0 DEF Linked, VersionId, Version, Nodes
<1>3. Position'
  <2>1. Shared'
    BY <1>0, <1>2, ThreadFacts DEF Shared
  <2>2. List' /\ Lines'
    BY <1>0, <1>2, ThreadFacts DEF List, Lines, Below
  <2>4. Modelled' /\ Completed'
    BY <1>0, <1>2, ThreadFacts DEF Modelled, Completed, Chain
  <2> QED BY <2>1, <2>2, <2>4 DEF Position
<1>4. Evolves
  BY <1>0, <1>1, <1>2 DEF Evolves, Chain
<1>5. "reclaim" \in PC
  BY DEF PC, WriteSteps
<1>6. PICK r \in Locals : local' = [local EXCEPT ![t] = r] /\ r.pc = "reclaim" /\ Alike(r, local[t])
  BY <1>0, <1>5, GotoFacts
<1>7. Inv(r)
  <2>1. local[t].seen = "null" /\ mob = "model"
    BY <1>0, ThreadFacts DEF Writes, QuerySteps
  <2> QED BY <2>1, <1>6, PlainInv DEF Alike, PlainSteps
<1>8. r \in Locals' /\ Inv(r)'
  BY <1>4, <1>6, <1>7, LocalsGrow, Kept, ThreadFacts
<1>9. r.pc \notin CountSteps /\ local[t].pc \notin CountSteps
  BY <1>0, <1>6 DEF CountSteps
<1>10. Counted'
  BY <1>0, <1>2, <1>6, <1>9, CountedKept
<1> QED BY <1>3, <1>4, <1>6, <1>8, <1>10, StepSuffices

LEMMA ReclaimIInv == ASSUME IInv, NEW t \in Thread, Reclaim(t) PROVE IInv' /\ Evolves
<1>0. /\ local[t].pc = "reclaim" /\ Goto(t, "model")
      /\ retired' = UNION {{i \in vnodes[vhead[k]].below : vnodes[i].ts <= Oldest} : k \in {k \in Key : vhead[k] # 0}}
      /\ UNCHANGED <<clock, mob, size, isReclaimed, next, frozen, vhead, vnodes, trained, mhead, calls, done, late>>
  BY DEF Reclaim, At, flags, links, model
<1>1. clock \in Nat /\ Len(vnodes) \in Nat
  BY ThreadFacts, VersionFacts, UruvAssumption DEF Shared
<1>2. Linked' = Linked /\ VersionId' = VersionId /\ Version' = Version /\ Nodes' = Nodes
  BY <1>0 DEF Linked, VersionId, Version, Nodes
<1>3. ASSUME NEW i \in retired' PROVE i \in Version /\ vnodes[i].ts # Invalid
  <2>1. PICK k \in Key : vhead[k] # 0 /\ i \in vnodes[vhead[k]].below
    BY <1>0
  <2>2. vhead[k] \in Version
    BY <2>1, ThreadFacts, VersionFacts DEF Shared
  <2>3. Below(vhead[k])
    BY <2>2, ThreadFacts DEF Lines
  <2>4. vnodes[i].ts # Invalid
    BY <2>1, <2>3 DEF Below
  <2>5. i \in 1 .. vhead[k] - 1
    BY <2>1, <2>3 DEF Below
  <2>6. i \in Version
    BY <2>2, <2>5, <1>1 DEF Version
  <2> QED BY <2>4, <2>6
<1>4. Position'
  <2>1. Shared'
    BY <1>0, <1>2, <1>3, ThreadFacts DEF Shared
  <2>2. List' /\ Lines'
    BY <1>0, <1>2, ThreadFacts DEF List, Lines, Below
  <2>4. Modelled'
    BY <1>0, <1>2, ThreadFacts DEF Modelled, Chain
  <2>5. Completed'
    BY <1>0, <1>2, <1>3, ThreadFacts DEF Completed, Chain
  <2> QED BY <2>1, <2>2, <2>4, <2>5 DEF Position
<1>5. Evolves
  BY <1>0, <1>1, <1>2 DEF Evolves, Chain
<1>6. "model" \in PC
  BY DEF PC, WriteSteps
<1>7. PICK r \in Locals : local' = [local EXCEPT ![t] = r] /\ r.pc = "model" /\ Alike(r, local[t])
  BY <1>0, <1>6, GotoFacts
<1>8. Inv(r)
  <2>1. local[t].seen = "null" /\ mob = "model"
    BY <1>0, ThreadFacts DEF Writes, QuerySteps
  <2> QED BY <2>1, <1>7, PlainInv DEF Alike, PlainSteps
<1>9. r \in Locals' /\ Inv(r)'
  BY <1>5, <1>7, <1>8, LocalsGrow, Kept, ThreadFacts
<1>10. r.pc \notin CountSteps /\ local[t].pc \notin CountSteps
  BY <1>0, <1>7 DEF CountSteps
<1>11. Counted'
  BY <1>0, <1>2, <1>7, <1>10, CountedKept
<1> QED BY <1>4, <1>5, <1>7, <1>9, <1>11, StepSuffices

LEMMA FreezeIInv == ASSUME IInv, NEW t \in Thread, Freeze(t) PROVE IInv' /\ Evolves
<1>2. PICK me : me = local[t]
  OBVIOUS
<1>0. /\ me.pc = "freeze" /\ frozen' = frozen \cup {me.at}
      /\ local' = [local EXCEPT ![t] = IF me.at = MinNode THEN Advance(me, NoVersions)
                                       ELSE [me EXCEPT !.pc = "take"]]
      /\ UNCHANGED <<clock, mob, size, isReclaimed, next, vhead, vnodes, trained, mhead, calls, done, late, retired>>
  BY <1>2 DEF Freeze, FreezeIf, At, flags, model, history
<1>1. clock \in Nat /\ Len(vnodes) \in Nat
  BY ThreadFacts, VersionFacts, UruvAssumption DEF Shared
<1>3. /\ me \in Locals /\ me.seen = "null"
      /\ me.at \in Nodes
      /\ \A n \in Nodes : n < me.at => n \in frozen
      /\ \A k \in Key : me.got[k] # 0 <=> k \in Linked /\ k < me.at
      /\ \A k \in Linked : k < me.at => Chain(vhead[k]) \ late[k] \subseteq Chain(me.got[k])
  BY <1>0, <1>2, ThreadFacts DEF Collects, Writes, CollectSteps, QuerySteps
<1>4. Linked' = Linked /\ VersionId' = VersionId /\ Version' = Version /\ Nodes' = Nodes
  BY <1>0 DEF Linked, VersionId, Version, Nodes
<1>5. Position'
  <2>1. Shared'
    BY <1>0, <1>3, <1>4, ThreadFacts DEF Shared
  <2>2. List' /\ Lines'
    BY <1>0, <1>4, ThreadFacts DEF List, Lines, Below
  <2>3. Modelled' /\ Completed'
    BY <1>0, <1>4, ThreadFacts DEF Modelled, Completed, Chain
  <2> QED BY <2>1, <2>2, <2>3 DEF Position
<1>6. Evolves
  BY <1>0, <1>1, <1>4 DEF Evolves, Chain
<1>7. PICK r : r = IF me.at = MinNode THEN Advance(me, NoVersions) ELSE [me EXCEPT !.pc = "take"]
  OBVIOUS
<1>8. local' = [local EXCEPT ![t] = r]
  BY <1>0, <1>7
<1>9. r \in Locals /\ Writes(r) /\ Queries(r) /\ Collects(r)' /\ r.pc \notin CountSteps
  <2>1. CASE me.at = MinNode
    <3>1. NoVersions \in [Key -> VersionId] /\ \A k \in Key : NoVersions[k] = 0 /\ ~(k <= me.at)
      BY <2>1, <1>1, KeyFacts DEF NoVersions, VersionId, MinNode
    <3>2. r = Advance(me, NoVersions)
      BY <2>1, <1>7
    <3>3. \A k \in Linked : k \in Key
      BY NodeFacts
    <3>4. /\ r \in Locals /\ r.pc \in {"freeze", "swap"} /\ Writes(r) /\ Queries(r)
          /\ r.pc = "freeze" => r.at \in Nodes
          /\ r.pc = "swap" => r.at = MaxNode
          /\ \A n \in Nodes : n < r.at => n < me.at \/ n = me.at
          /\ \A k \in Key : r.got[k] # 0 <=> k \in Linked /\ k < r.at
          /\ \A k \in Linked : k < r.at => Chain(vhead[k]) \ late[k] \subseteq Chain(r.got[k])
      BY <3>1, <3>2, <3>3, <1>3, AdvanceFits, ThreadFacts
    <3>5. Collects(r)'
      BY <3>4, <1>0, <1>3, <1>4 DEF Collects, Chain
    <3> QED BY <3>4, <3>5 DEF CountSteps
  <2>2. CASE me.at # MinNode
    <3>1. r = [me EXCEPT !.pc = "take"] /\ "take" \in PC
      BY <2>2, <1>7 DEF PC, WriteSteps
    <3>2. r \in Locals /\ r.pc = "take" /\ r.at = me.at /\ r.got = me.got /\ r.seen = me.seen
      BY <3>1, <1>3 DEF Locals, PC
    <3>3. Writes(r) /\ Queries(r) /\ r.pc \notin CountSteps
      BY <3>2, <1>3 DEF Writes, Queries, PlainSteps, NodeSteps, LoadedSteps, QuerySteps, CountSteps
    <3>4. me.at \in Linked
      BY <2>2, <1>3, NodeFacts
    <3>5. Collects(r)'
      BY <3>2, <3>4, <1>0, <1>3, <1>4 DEF Collects, Chain
    <3> QED BY <3>2, <3>3, <3>5
  <2> QED BY <2>1, <2>2
<1>10. r \in Locals' /\ Inv(r)'
  BY <1>6, <1>9, LocalsGrow, WritesKept, QueriesKept, ThreadFacts DEF Inv
<1>11. local[t].pc \notin CountSteps
  BY <1>0, <1>2 DEF CountSteps
<1>12. Counted'
  BY <1>0, <1>4, <1>8, <1>9, <1>11, CountedKept
<1> QED BY <1>5, <1>6, <1>8, <1>10, <1>12, StepSuffices

LEMMA SwapIInv == ASSUME IInv, NEW t \in Thread, Swap(t) PROVE IInv' /\ Evolves
<1>2. PICK me : me = local[t]
  OBVIOUS
<1>0. /\ me.pc = "swap" /\ mob = "bin" /\ mob' = "model" /\ trained' = {k \in Key : me.got[k] # 0}
      /\ mhead' = me.got /\ Continue(t, "flag")
      /\ UNCHANGED <<clock, size, isReclaimed, next, frozen, vhead, vnodes, calls, done, late, retired>>
  BY <1>2 DEF Swap, At, links, history
<1>1. clock \in Nat /\ Len(vnodes) \in Nat
  BY ThreadFacts, VersionFacts, UruvAssumption DEF Shared
<1>3. /\ me \in Locals /\ me.got \in [Key -> VersionId]
      /\ me.at = MaxNode
      /\ \A n \in Nodes : n < me.at => n \in frozen
      /\ \A k \in Key : me.got[k] # 0 <=> k \in Linked /\ k < me.at
      /\ \A k \in Linked : k < me.at => Chain(vhead[k]) \ late[k] \subseteq Chain(me.got[k])
  BY <1>0, <1>2, ThreadFacts, LocalFacts DEF Collects, CollectSteps
<1>4. Linked' = Linked /\ VersionId' = VersionId /\ Version' = Version /\ Nodes' = Nodes
  BY <1>0 DEF Linked, VersionId, Version, Nodes
<1>5. Nodes \subseteq frozen /\ trained' = Linked
      /\ \A k \in Linked : me.got[k] # 0 /\ Chain(vhead[k]) \ late[k] \subseteq Chain(me.got[k])
  BY <1>0, <1>3, NodeFacts
<1>6. Position'
  <2>1. Shared'
    BY <1>0, <1>3, <1>4, ThreadFacts DEF Shared, Mobs
  <2>2. List' /\ Lines'
    BY <1>0, <1>4, ThreadFacts DEF List, Lines, Below
  <2>3. Modelled'
    BY <1>0, <1>4, <1>5 DEF Modelled, Chain
  <2>4. Completed'
    BY <1>0, <1>4, ThreadFacts DEF Completed, Chain
  <2> QED BY <2>1, <2>2, <2>3, <2>4 DEF Position
<1>7. Evolves
  BY <1>0, <1>1, <1>4 DEF Evolves, Chain
<1>8. "flag" \in PC
  BY DEF PC, WriteSteps
<1>9. PICK r \in Locals : local' = [local EXCEPT ![t] = r] /\ r.pc = "flag" /\ Afresh(r, local[t])
  BY <1>0, <1>8, ContinueFacts
<1>10. r \in Locals'
  BY <1>7, <1>9, LocalsGrow
<1>11. Inv(r)' /\ r.pc \notin CountSteps /\ local[t].pc \notin CountSteps
  BY <1>0, <1>2, <1>9 DEF Afresh, Inv, Writes, Collects, Queries, PlainSteps, NodeSteps, LoadedSteps, CollectSteps,
     QuerySteps, CountSteps
<1>12. Counted'
  BY <1>0, <1>4, <1>9, <1>11, CountedKept
<1> QED BY <1>6, <1>7, <1>9, <1>10, <1>11, <1>12, StepSuffices

-----------------------------------------------------------------------------
(* Timestamps, and the updates that return *)

\* The sequence w has the versions of vnodes, some of them stamped.
Times(w) ==
    /\ w \in Seq(Vnode) /\ Len(w) = Len(vnodes)
    /\ \A j \in Version : /\ w[j].below = vnodes[j].below
                          /\ w[j].ts \in Invalid .. clock
                          /\ vnodes[j].ts # Invalid => w[j].ts = vnodes[j].ts

LEMMA StampedFacts ==
    ASSUME Shared, Lines, NEW i \in Version, NEW w, w = Stamped(i)
    PROVE  Times(w) /\ w[i].ts # Invalid
<1>0. /\ Len(vnodes) \in Nat /\ i \in 1 .. Len(vnodes) /\ clock \in Nat /\ vnodes \in Seq(Vnode)
      /\ vnodes[i] \in Vnode /\ \A j \in Version : vnodes[j].ts \in Invalid .. clock
  BY VersionFacts, UruvAssumption DEF Shared, Version, Lines, Below
<1>1. CASE vnodes[i].ts # Invalid
  BY <1>0, <1>1 DEF Stamped, Times
<1>2. CASE vnodes[i].ts = Invalid
  <2>1. PICK e : e = [vnodes[i] EXCEPT !.ts = clock]
    OBVIOUS
  <2>2. e \in Vnode /\ e.ts = clock /\ e.below = vnodes[i].below
    BY <2>1, <1>0 DEF Vnode
  <2>3. w = [vnodes EXCEPT ![i] = e]
    BY <2>1, <1>2 DEF Stamped
  <2>4. w \in Seq(Vnode) /\ Len(w) = Len(vnodes) /\ \A j \in Version : w[j] = IF j = i THEN e ELSE vnodes[j]
    BY <2>2, <2>3, <1>0, ExceptSeq DEF Version
  <2>5. clock # Invalid /\ clock \in Invalid .. clock
    BY <1>0 DEF Invalid
  <2>6. w[i] = e /\ \A j \in Version : j # i => w[j] = vnodes[j]
    BY <2>4
  <2> QED BY <2>2, <2>4, <2>5, <2>6, <1>0, <1>2 DEF Times
<1> QED BY <1>1, <1>2

\* What a step leaves alone when it stamps a version, or when an update returns.
placed == <<clock, mob, isReclaimed, next, frozen, vhead, trained, mhead, late, retired, calls>>

LEMMA TimesStep ==
    ASSUME Position, UNCHANGED placed, Times(vnodes'), done' \in [Key -> SUBSET Version],
           \A k \in Key : done[k] \subseteq done'[k],
           \A k \in Key : done'[k] # {} => k \in Linked,
           \A k \in Key : \A i \in done'[k] : vnodes'[i].ts # Invalid,
           mob # "model" => \A k \in Key : done'[k] \subseteq Chain(vhead[k])
    PROVE  Position' /\ Evolves
<1>0. /\ UNCHANGED <<clock, mob, isReclaimed, next, frozen, vhead, trained, mhead, late, retired, calls>>
      /\ Shared /\ List /\ Lines /\ Modelled /\ Completed
  BY DEF placed, Position
<1>1. /\ vnodes' \in Seq(Vnode) /\ Len(vnodes') = Len(vnodes) /\ Len(vnodes) \in Nat /\ clock \in Nat
      /\ \A j \in Version : /\ vnodes'[j].below = vnodes[j].below
                            /\ vnodes'[j].ts \in Invalid .. clock
                            /\ vnodes[j].ts # Invalid => vnodes'[j].ts = vnodes[j].ts
  BY <1>0, VersionFacts, UruvAssumption DEF Times, Shared
<1>2. Linked' = Linked /\ VersionId' = VersionId /\ Version' = Version /\ Nodes' = Nodes
  BY <1>0, <1>1 DEF Linked, VersionId, Version, Nodes
<1>3. ASSUME NEW h \in VersionId PROVE Chain(h)' = Chain(h)
  <2>1. h # 0 => h \in Version
    BY <1>0, VersionFacts
  <2> QED BY <2>1, <1>1 DEF Chain
<1>4. \A k \in Key : Chain(vhead[k])' = Chain(vhead[k]) /\ Chain(mhead[k])' = Chain(mhead[k])
  <2> SUFFICES ASSUME NEW k \in Key
               PROVE  Chain(vhead[k])' = Chain(vhead[k]) /\ Chain(mhead[k])' = Chain(mhead[k])
    OBVIOUS
  <2>1. PICK h, m : h = vhead[k] /\ m = mhead[k]
    OBVIOUS
  <2>2. h \in VersionId /\ m \in VersionId
    BY <2>1, <1>0 DEF Shared
  <2>3. Chain(h)' = Chain(h) /\ Chain(m)' = Chain(m)
    BY <2>2, <1>3
  <2> QED BY <2>1, <2>3, <1>0 DEF Chain
<1>5. Shared'
  BY <1>0, <1>1, <1>2 DEF Shared
<1>6. List'
  BY <1>0, <1>2 DEF List
<1>7. Lines'
  <2> SUFFICES ASSUME NEW i \in Version PROVE Below(i)'
    BY <1>2 DEF Lines
  <2>1. Below(i) /\ vnodes[i].below \subseteq Version
    <3>1. Below(i)
      BY <1>0 DEF Lines
    <3>2. vnodes[i].below \subseteq 1 .. i - 1
      BY <3>1 DEF Below
    <3>3. i \in 1 .. Len(vnodes)
      BY DEF Version
    <3>4. 1 .. i - 1 \subseteq Version
      BY <3>3, <1>1 DEF Version
    <3> QED BY <3>1, <3>2, <3>4
  <2> QED BY <2>1, <1>0, <1>1 DEF Below
<1>8. Modelled'
  <2>1. \A k \in trained : k \in Key
    BY <1>0 DEF Shared
  <2> QED BY <2>1, <1>0, <1>2, <1>4 DEF Modelled
<1>9. Completed'
  <2>1. \A i \in retired' : vnodes'[i].ts # Invalid
    BY <1>0, <1>1 DEF Shared, Completed
  <2> QED BY <2>1, <1>0, <1>2, <1>4 DEF Completed
<1>10. Evolves
  BY <1>0, <1>1, <1>2, <1>4 DEF Evolves
<1> QED BY <1>5, <1>6, <1>7, <1>8, <1>9, <1>10 DEF Position

\* init_ts alone.
LEMMA StampStep ==
    ASSUME Position, UNCHANGED <<placed, done>>, NEW i \in Version, vnodes' = Stamped(i)
    PROVE  Position' /\ Evolves /\ vnodes'[i].ts # Invalid
<1>1. Times(vnodes') /\ vnodes'[i].ts # Invalid
  BY StampedFacts DEF Position
<1>2. Completed /\ Shared /\ done' = done
  BY DEF Position
<1>3. \A k \in Key : \A j \in done[k] : j \in Version /\ vnodes[j].ts # Invalid
  BY <1>2 DEF Completed, Shared
<1>4. \A k \in Key : \A j \in done'[k] : vnodes'[j].ts # Invalid
  BY <1>1, <1>2, <1>3 DEF Times
<1>5. done' \in [Key -> SUBSET Version]
  BY <1>2 DEF Shared
<1>6. UNCHANGED placed
  OBVIOUS
<1>7. Position' /\ Evolves
  BY <1>1, <1>2, <1>4, <1>5, <1>6, TimesStep DEF Completed
<1> QED BY <1>1, <1>7

LEMMA StampThenIInv ==
    ASSUME IInv, NEW t \in Thread, NEW q \in {"readStamp", "vStamp", "linkStamp"},
           NEW p \in {"readValue", "push", "count"}, q = "linkStamp" <=> p = "count",
           StampThen(t, q, p)
    PROVE  IInv' /\ Evolves
<1>0. /\ local[t].pc = q /\ Goto(t, p) /\ vnodes' = Stamped(local[t].node) /\ size' = size
      /\ UNCHANGED <<placed, done>> /\ vhead' = vhead
  BY DEF StampThen, At, placed, flags, links, model, history
<1>1. local[t].node \in VersionId /\ local[t].node \in Chain(vhead[local[t].key]) /\ local[t].key \in Linked
      /\ local[t].seen = "null"
  BY <1>0, ThreadFacts, LocalFacts DEF Writes, LoadedSteps, NodeSteps, QuerySteps
<1>2. vhead[local[t].key] \in VersionId
  BY ThreadFacts, LocalFacts DEF Shared
<1>3. local[t].node \in Version
  BY <1>1, <1>2, ChainFacts, ThreadFacts
<1>4. Position' /\ Evolves /\ vnodes'[local[t].node].ts # Invalid
  BY <1>0, <1>3, StampStep, ThreadFacts
<1>5. p \in PC
  BY DEF PC, WriteSteps
<1>6. PICK r \in Locals : local' = [local EXCEPT ![t] = r] /\ r.pc = p /\ Alike(r, local[t])
  BY <1>0, <1>5, GotoFacts
<1>7. r \in Locals' /\ Linked' = Linked
  BY <1>0, <1>4, <1>6, LocalsGrow DEF Linked
<1>8. r.node \in Chain(vhead[r.key])' /\ r.key \in Linked' /\ r.seen = "null" /\ vnodes'[r.node].ts # Invalid
  <2>1. r.node = local[t].node /\ r.key = local[t].key /\ r.seen = local[t].seen /\ r.key \in Key
    BY <1>6, ThreadFacts, LocalFacts DEF Alike
  <2>2. r.node \in Chain(vhead[r.key])
    BY <2>1, <1>1
  <2>3. r.node \in Chain(vhead[r.key])'
    BY <2>1, <2>2, <1>4 DEF Evolves
  <2> QED BY <2>1, <2>3, <1>1, <1>4, <1>7
<1>9. Inv(r)'
  BY <1>6, <1>8 DEF Inv, Writes, Collects, Queries, PlainSteps, NodeSteps, LoadedSteps, CollectSteps, QuerySteps
<1>10. r.pc \in CountSteps <=> local[t].pc \in CountSteps
  BY <1>0, <1>6 DEF CountSteps
<1>11. Counted'
  BY <1>0, <1>6, <1>7, <1>10, CountedKept
<1> QED BY <1>4, <1>6, <1>7, <1>9, <1>11, StepSuffices

LEMMA StampIInv == ASSUME IInv, NEW t \in Thread, Stamp(t) PROVE IInv' /\ Evolves
<1>1. CASE StampThen(t, "readStamp", "readValue")
  BY <1>1, StampThenIInv
<1>2. CASE StampThen(t, "vStamp", "push")
  BY <1>2, StampThenIInv
<1>3. CASE StampThen(t, "linkStamp", "count")
  BY <1>3, StampThenIInv
<1> QED BY <1>1, <1>2, <1>3 DEF Stamp

\* One more update of key k has returned.
LEMMA DoneStep ==
    ASSUME Position, UNCHANGED placed, Times(vnodes'), NEW k \in Linked, NEW i \in Chain(vhead[k]),
           vnodes'[i].ts # Invalid, done' = [done EXCEPT ![k] = @ \cup {i}]
    PROVE  Position' /\ Evolves
<1>0. k \in Key /\ Shared /\ Lines /\ Completed /\ vhead[k] \in VersionId /\ done \in [Key -> SUBSET Version]
  BY NodeFacts DEF Position, Shared
<1>1. i \in Version
  BY <1>0, ChainFacts
<1>2. /\ done' \in [Key -> SUBSET Version] /\ done'[k] = done[k] \cup {i}
      /\ \A j \in Key : j # k => done'[j] = done[j]
  BY <1>0, <1>1
<1>3. \A j \in Key : done[j] \subseteq done'[j]
  BY <1>2
<1>4. \A j \in Key : done'[j] # {} => j \in Linked
  BY <1>0, <1>2 DEF Completed
<1>5. \A j \in Key : \A m \in done[j] : m \in Version /\ vnodes[m].ts # Invalid
  BY <1>0 DEF Completed
<1>6. \A j \in Key : \A m \in done'[j] : vnodes'[m].ts # Invalid
  BY <1>2, <1>5 DEF Times
<1>7. mob # "model" => \A j \in Key : done'[j] \subseteq Chain(vhead[j])
  BY <1>0, <1>2 DEF Completed
<1> QED BY <1>2, <1>3, <1>4, <1>6, <1>7, TimesStep

LEMMA ReturnPushIInv == ASSUME IInv, NEW t \in Thread, ReturnPush(t) PROVE IInv' /\ Evolves
<1>0. /\ local[t].pc = "pushed" /\ Return(t) /\ vnodes' = Stamped(local[t].node) /\ size' = size
      /\ UNCHANGED placed /\ vhead' = vhead
      /\ done' = [done EXCEPT ![local[t].key] = @ \cup {local[t].node}]
  BY DEF ReturnPush, ReturnPushWith, At, placed, flags, links, model
<1>1. local[t].node \in VersionId /\ local[t].node \in Chain(vhead[local[t].key]) /\ local[t].key \in Linked
  BY <1>0, ThreadFacts, LocalFacts DEF Writes, LoadedSteps, NodeSteps
<1>2. vhead[local[t].key] \in VersionId
  BY ThreadFacts, LocalFacts DEF Shared
<1>3. local[t].node \in Version
  BY <1>1, <1>2, ChainFacts, ThreadFacts
<1>4. Times(vnodes') /\ vnodes'[local[t].node].ts # Invalid
  BY <1>0, <1>3, StampedFacts, ThreadFacts
<1>5. Position' /\ Evolves
  BY <1>0, <1>1, <1>4, DoneStep, ThreadFacts
<1>6. NoCall \in Locals' /\ Inv(NoCall)'
  BY <1>5, LocalsGrow, Kept, NoCallFits, ThreadFacts
<1>7. local' = [local EXCEPT ![t] = NoCall] /\ NoCall.pc \notin CountSteps /\ local[t].pc \notin CountSteps
  BY <1>0, NoCallFields DEF Return, CountSteps
<1>8. Linked' = Linked
  BY <1>0 DEF Linked
<1>9. Counted'
  BY <1>0, <1>7, <1>8, CountedKept
<1> QED BY <1>5, <1>6, <1>7, <1>9, StepSuffices

LEMMA CountIInv == ASSUME IInv, NEW t \in Thread, Count(t) PROVE IInv' /\ Evolves
<1> DEFINE i == Min(Chain(local[t].node))
<1>0. /\ local[t].pc = "count" /\ Return(t) /\ vnodes' = vnodes /\ size' = size + 1
      /\ UNCHANGED placed /\ vhead' = vhead
      /\ done' = [done EXCEPT ![local[t].key] = @ \cup {i}]
  BY DEF Count, At, placed, links, model
<1>1. /\ local[t].node \in VersionId /\ local[t].node \in Chain(vhead[local[t].key]) /\ local[t].key \in Linked
      /\ vnodes[local[t].node].ts # Invalid
  BY <1>0, ThreadFacts, LocalFacts DEF Writes, LoadedSteps, NodeSteps
<1>2. vhead[local[t].key] \in VersionId
  BY ThreadFacts, LocalFacts DEF Shared
<1>3. local[t].node \in Version /\ Chain(local[t].node) \subseteq Chain(vhead[local[t].key])
  BY <1>1, <1>2, ChainFacts, ThreadFacts
<1>4. Chain(local[t].node) \subseteq Version /\ local[t].node \in Chain(local[t].node)
      /\ \A j \in Chain(local[t].node) : j # local[t].node => vnodes[j].ts # Invalid
  <2>1. local[t].node # 0
    BY <1>3, VersionFacts, ThreadFacts
  <2> QED BY <2>1, <1>1, ChainFacts, ThreadFacts
<1>5. i \in Chain(local[t].node)
  <2>1. Chain(local[t].node) \subseteq Nat /\ Chain(local[t].node) # {}
    BY <1>4, VersionFacts, ThreadFacts
  <2> QED BY <2>1, MinIn
<1> HIDE DEF i
<1>6. i \in Chain(vhead[local[t].key]) /\ vnodes'[i].ts # Invalid
  BY <1>0, <1>1, <1>3, <1>4, <1>5
<1>7. Times(vnodes')
  BY <1>0, ThreadFacts DEF Times, Shared, Lines, Below
<1>8. Position' /\ Evolves
  BY <1>0, <1>1, <1>6, <1>7, DoneStep, ThreadFacts
<1>9. NoCall \in Locals' /\ Inv(NoCall)'
  BY <1>8, LocalsGrow, Kept, NoCallFits, ThreadFacts
<1>10. local' = [local EXCEPT ![t] = NoCall] /\ NoCall.pc \notin CountSteps /\ local[t].pc \in CountSteps
  BY <1>0, NoCallFields DEF Return, CountSteps
<1>11. Linked' = Linked
  BY <1>0 DEF Linked
<1>12. Counting' = Counting \ {t} /\ t \in Counting
  <2>1. \A u \in Thread : local'[u] = IF u = t THEN NoCall ELSE local[u]
    BY <1>10, ThreadFacts
  <2>2. ASSUME NEW u \in Thread PROVE local'[u].pc \in CountSteps <=> local[u].pc \in CountSteps /\ u # t
    <3>1. CASE u = t
      BY <3>1, <2>1, <1>10
    <3>2. CASE u # t
      BY <3>2, <2>1
    <3> QED BY <3>1, <3>2
  <2> QED BY <2>2, <1>10 DEF Counting
<1>13. Cardinality(Counting') = Cardinality(Counting) - 1
  BY <1>12, CountingFinite, FS_RemoveElement
<1>14. Counted'
  <2>1. size \in Nat /\ size + Cardinality(Counting) = Cardinality(Linked)
    BY DEF IInv, Counted
  <2>2. Cardinality(Counting) \in Nat /\ Cardinality(Counting') \in Nat
    BY CountingFinite
  <2>3. size' \in Nat /\ size' + Cardinality(Counting') = Cardinality(Linked)
    BY <2>1, <2>2, <1>0, <1>13
  <2> QED BY <2>3, <1>11 DEF Counted
<1> QED BY <1>8, <1>9, <1>10, <1>14, StepSuffices

LEMMA QueryWalkIInv == ASSUME IInv, NEW t \in Thread, QueryWalk(t) PROVE IInv' /\ Evolves
<1>2. PICK me : me = local[t]
  OBVIOUS
<1> DEFINE S == {i \in Chain(me.node) : vnodes'[i].ts < me.qts}
<1>3. PICK m : m = Max(S \cup {0})
  OBVIOUS
<1>4. PICK r : r = [me EXCEPT !.pc = "qNext", !.at = me.right, !.right = MinNode, !.node = 0,
                              !.got = [me.got EXCEPT ![me.at] = m]]
  OBVIOUS
<1>0. /\ me.pc = "qStamp" /\ vnodes' = Stamped(me.node) /\ size' = size
      /\ UNCHANGED <<placed, done>> /\ vhead' = vhead
  BY <1>2 DEF QueryWalk, At, placed, flags, links, model, history
<1>1. me \in Locals /\ me.pc \in QuerySteps /\ Queries(me) /\ me.node \in VersionId /\ me.got \in [Key -> VersionId]
  BY <1>0, <1>2, ThreadFacts, LocalFacts DEF QuerySteps
<1>5. me.node # 0 /\ me.at \in Linked /\ me.at \in Key
  BY <1>0, <1>1, NodeFacts DEF Queries
<1>6. local' = [local EXCEPT ![t] = r]
  <2>1. PICK a, b : a = me.at /\ b = me.right
    OBVIOUS
  <2>2. local' = [local EXCEPT ![t] =
            [me EXCEPT !.pc = "qNext", !.at = b, !.right = MinNode, !.node = 0, !.got[a] = m]]
    BY <2>1, <1>2, <1>3 DEF QueryWalk
  <2>3. r = [me EXCEPT !.pc = "qNext", !.at = b, !.right = MinNode, !.node = 0, !.got[a] = m]
    <3>1. [me EXCEPT !.pc = "qNext", !.at = b, !.right = MinNode, !.node = 0].got = me.got
      BY <1>1 DEF Locals
    <3> QED BY <3>1, <2>1, <1>4
  <2> QED BY <2>2, <2>3
<1>7. me.node \in Version
  BY <1>1, <1>5, VersionFacts, ThreadFacts
<1>8. Position' /\ Evolves
  BY <1>0, <1>7, StampStep, ThreadFacts
<1>9. Queries(me)' /\ me \in Locals'
  BY <1>1, <1>8, QueriesKept, LocalsGrow, ThreadFacts
<1>10. /\ Linked' = Linked /\ Len(vnodes) \in Nat /\ Chain(me.node) \subseteq Version
       /\ \A i, j \in Chain(me.node) : i <= j => i \in Chain(j)
  BY <1>0, <1>1, ChainFacts, VersionFacts, ThreadFacts DEF Linked
<1>11. m \in S \cup {0} /\ \A y \in S : y <= m
  <2>1. S \cup {0} \subseteq 0 .. Len(vnodes) /\ S \cup {0} # {}
    BY <1>10 DEF Version
  <2> HIDE DEF S
  <2>2. Max(S \cup {0}) \in S \cup {0} /\ \A y \in S \cup {0} : y <= Max(S \cup {0})
    BY <2>1, <1>10, MaxIn
  <2> QED BY <2>2, <1>3
<1>12. m \in VersionId
  BY <1>10, <1>11, VersionFacts, ThreadFacts DEF VersionId
<1>13. me.right \in MinNode .. MaxNode /\ MinNode \in MinNode .. MaxNode /\ "qNext" \in PC /\ 0 \in VersionId
       /\ [me.got EXCEPT ![me.at] = m] \in [Key -> VersionId]
  <2>1. me.right \in MinNode .. MaxNode /\ MinNode \in MinNode .. MaxNode /\ "qNext" \in PC
    BY <1>1, LocalFacts, KeyFacts DEF PC, QuerySteps
  <2>2. 0 \in VersionId
    BY <1>10 DEF VersionId
  <2>3. [me.got EXCEPT ![me.at] = m] \in [Key -> VersionId]
    BY <1>1, <1>12
  <2> QED BY <2>1, <2>2, <2>3
<1>14. /\ r \in Locals /\ r.pc = "qNext" /\ r.at = me.right /\ r.seen = me.seen /\ r.tick = me.tick /\ r.qts = me.qts
       /\ r.got = [me.got EXCEPT ![me.at] = m]
  BY <1>1, <1>4, <1>13 DEF Locals, PC
<1>15. r \in Locals' /\ r.got[me.at] = m /\ \A k \in Key : k # me.at => r.got[k] = me.got[k]
  BY <1>1, <1>5, <1>8, <1>14, LocalsGrow
<1>16. /\ \A k \in Key : \A i \in me.tick[k] : i \in done'[k] /\ vnodes'[i].ts < me.qts
       /\ me.seen = "model" => mob' = "model"
       /\ me.seen = "bin" => \A k \in Key : me.tick[k] \subseteq Chain(vhead[k])'
       /\ me.seen # "null" /\ me.right \in Linked' \cup {MaxNode}
       /\ \A k \in Key : me.at < k /\ k < me.right => me.tick[k] = {}
       /\ \A i \in me.tick[me.at] : OnList(i, me.at, me.node)'
       /\ Read(me)'
  BY <1>0, <1>1, <1>9 DEF Queries
<1>17. ASSUME NEW i \in me.tick[me.at] PROVE OnList(i, me.at, m)'
  <2>1. OnList(i, me.at, me.node)'
    BY <1>16
  <2>2. CASE i \in Chain(me.node)'
    <3>1. i \in Chain(me.node)
      BY <2>2, <1>1, <1>8, ChainSame, ThreadFacts
    <3>2. i \in S /\ i \in Version
      BY <3>1, <1>5, <1>10, <1>16
    <3>3. i <= m /\ i \in Nat /\ i # 0
      BY <3>2, <1>11, VersionFacts, ThreadFacts
    <3>4. m # 0
      BY <3>3, <1>12, <1>10 DEF VersionId
    <3>5. m \in Chain(me.node)
      BY <3>4, <1>11
    <3>6. i \in Chain(m)
      BY <3>1, <3>3, <3>5, <1>10
    <3>7. Chain(m)' = Chain(m)
      BY <1>8, <1>12, ChainSame, ThreadFacts
    <3> QED BY <3>6, <3>7 DEF OnList
  <2>3. CASE i \notin Chain(me.node)'
    BY <2>1, <2>3 DEF OnList
  <2> QED BY <2>2, <2>3
<1>18. Read(r)'
  <2> SUFFICES ASSUME NEW k \in Key, k < me.right, NEW i \in me.tick[k] PROVE OnList(i, k, r.got[k])'
    BY <1>14 DEF Read
  <2>1. k \in Nat /\ me.at \in Nat
    BY <1>5, KeyFacts
  <2>2. CASE k = me.at
    <3>1. OnList(i, me.at, m)'
      BY <2>2, <1>17
    <3> QED BY <3>1, <2>2, <1>15
  <2>3. CASE k # me.at
    <3>1. k < me.at
      <4>1. ~(me.at < k)
        BY <1>16
      <4> QED BY <4>1, <2>1, <2>3
    <3>2. OnList(i, k, me.got[k])'
      BY <3>1, <1>16 DEF Read
    <3> QED BY <3>2, <2>3, <1>15
  <2> QED BY <2>2, <2>3
<1>19. Queries(r)'
  <2>1. r.at = MaxNode \/ (r.seen # "null" /\ r.at \in Linked')
    BY <1>14, <1>16
  <2> QED BY <2>1, <1>14, <1>16, <1>18 DEF Queries
<1>20. Inv(r)' /\ r.pc \notin CountSteps /\ local[t].pc \notin CountSteps
  BY <1>0, <1>2, <1>14, <1>19 DEF Inv, Writes, Collects, PlainSteps, NodeSteps, LoadedSteps, CollectSteps,
     QuerySteps, CountSteps
<1>21. Counted'
  BY <1>0, <1>6, <1>10, <1>20, CountedKept
<1> QED BY <1>6, <1>8, <1>15, <1>20, <1>21, StepSuffices

-----------------------------------------------------------------------------
(* New versions *)

\* The sequence w has one more version, whose nextv is h.
Grows(w, h) ==
    /\ w \in Seq(Vnode) /\ Len(w) = Len(vnodes) + 1
    /\ \A j \in Version : /\ w[j].below = vnodes[j].below
                          /\ w[j].ts \in Invalid .. clock
                          /\ vnodes[j].ts # Invalid => w[j].ts = vnodes[j].ts
    /\ w[Len(w)].below = Chain(h) /\ w[Len(w)].ts \in Invalid .. clock
    /\ h # 0 => w[h].ts # Invalid

LEMMA SameTimes ==
    ASSUME Shared, Lines
    PROVE  Times(vnodes)
BY DEF Times, Shared, Lines, Below

LEMMA Published ==
    ASSUME Shared, Lines, NEW x, Times(x), NEW h \in VersionId, h # 0 => x[h].ts # Invalid,
           NEW v \in Value \cup {Removed}, NEW ts \in Invalid .. clock,
           NEW w, w = Append(x, NewVnode(v, h, ts))
    PROVE  Grows(w, h) /\ w[Len(w)].ts = ts
<1>0. Len(vnodes) \in Nat /\ clock \in Nat /\ Chain(h) \subseteq Version /\ Version = 1 .. Len(vnodes)
  BY VersionFacts, ChainFacts, UruvAssumption DEF Shared, Version
<1>1. x \in Seq(Vnode) /\ Len(x) = Len(vnodes) /\ Version = 1 .. Len(x)
  BY <1>0 DEF Times
<1>2. PICK e : e = NewVnode(v, h, ts)
  OBVIOUS
<1>3. e \in Vnode /\ e.below = Chain(h) /\ e.ts = ts
  <2>1. Chain(h) \subseteq Nat /\ ts \in Int
    BY <1>0 DEF Invalid
  <2> QED BY <2>1, <1>2 DEF NewVnode, Vnode
<1>4. /\ w \in Seq(Vnode) /\ Len(w) = Len(x) + 1 /\ w[Len(x) + 1] = e
      /\ \A j \in 1 .. Len(x) : w[j] = x[j]
  BY <1>1, <1>2, <1>3, AppendProperties
<1>5. h # 0 => h \in Version
  BY VersionFacts
<1>6. h # 0 => w[h].ts # Invalid
  BY <1>1, <1>4, <1>5
<1> QED BY <1>1, <1>3, <1>4, <1>6 DEF Grows, Times

LEMMA GrowsLines ==
    ASSUME Shared, Lines, NEW h \in VersionId, Grows(vnodes', h), clock' = clock
    PROVE  /\ Lines'
           /\ Len(vnodes) \in Nat /\ Len(vnodes') = Len(vnodes) + 1 /\ clock \in Nat
           /\ Version' = Version \cup {Len(vnodes) + 1} /\ Len(vnodes) + 1 \notin VersionId
           /\ VersionId' = VersionId \cup {Len(vnodes) + 1}
           /\ \A g \in VersionId : Chain(g)' = Chain(g)
           /\ \A g : g = Len(vnodes) + 1 => Chain(g)' = {g} \cup Chain(h)
<1>0. Len(vnodes) \in Nat /\ Len(vnodes') = Len(vnodes) + 1 /\ clock \in Nat
  BY VersionFacts, UruvAssumption DEF Shared, Grows
<1>1. PICK n : n = Len(vnodes) + 1
  OBVIOUS
<1>2. /\ n \in Nat /\ n # 0 /\ n \notin VersionId /\ n \notin Version
      /\ Version' = Version \cup {n} /\ VersionId' = VersionId \cup {n} /\ Version = 1 .. n - 1
  BY <1>0, <1>1 DEF Version, VersionId
<1>3. /\ \A j \in Version : /\ vnodes'[j].below = vnodes[j].below
                            /\ vnodes'[j].ts \in Invalid .. clock
                            /\ vnodes[j].ts # Invalid => vnodes'[j].ts = vnodes[j].ts
      /\ vnodes'[n].below = Chain(h) /\ vnodes'[n].ts \in Invalid .. clock
      /\ h # 0 => vnodes'[h].ts # Invalid
  BY <1>0, <1>1 DEF Grows
<1>4. ASSUME NEW g \in VersionId PROVE Chain(g)' = Chain(g)
  <2>1. g # 0 => g \in Version
    BY VersionFacts
  <2> QED BY <2>1, <1>3 DEF Chain
<1>5. Chain(n)' = {n} \cup Chain(h)
  BY <1>2, <1>3 DEF Chain
<1>6. ASSUME NEW i \in Version PROVE Below(i)'
  <2>1. Below(i) /\ vnodes[i].below \subseteq Version
    <3>1. Below(i)
      BY DEF Lines
    <3>2. vnodes[i].below \subseteq 1 .. i - 1
      BY <3>1 DEF Below
    <3>3. 1 .. i - 1 \subseteq Version
      BY <1>2
    <3> QED BY <3>1, <3>2, <3>3
  <2> QED BY <2>1, <1>3 DEF Below
<1>7. Below(n)'
  <2>1. /\ Chain(h) \subseteq Version
        /\ \A i \in Chain(h) : Chain(i) \subseteq Chain(h) /\ (i # h => vnodes[i].ts # Invalid)
        /\ \A i, j \in Chain(h) : i <= j => i \in Chain(j)
        /\ \A j \in Version : j # 0 /\ j \in Nat
    BY ChainFacts, VersionFacts
  <2>2. ASSUME NEW j \in Chain(h)
        PROVE  /\ vnodes'[j].ts # Invalid
               /\ vnodes'[j].below \subseteq Chain(h)
               /\ \A m \in Chain(h) : j < m => j \in vnodes'[m].below
    <3>0. j \in Version /\ Chain(j) = {j} \cup vnodes[j].below
      BY <2>1 DEF Chain
    <3>1. vnodes'[j].ts # Invalid
      <4>1. CASE j = h
        BY <4>1, <3>0, <2>1, <1>3
      <4>2. CASE j # h
        BY <4>2, <3>0, <2>1, <1>3
      <4> QED BY <4>1, <4>2
    <3>2. vnodes'[j].below \subseteq Chain(h)
      BY <3>0, <2>1, <1>3
    <3>3. ASSUME NEW m \in Chain(h), j < m PROVE j \in vnodes'[m].below
      <4>1. m \in Version /\ Chain(m) = {m} \cup vnodes[m].below
        BY <2>1 DEF Chain
      <4>2. j <= m /\ j # m
        BY <4>1, <3>0, <3>3, <2>1
      <4>3. j \in Chain(m)
        BY <4>2, <2>1
      <4> QED BY <4>1, <4>2, <4>3, <1>3
    <3> QED BY <3>1, <3>2, <3>3
  <2>3. vnodes'[n].below \subseteq 1 .. n - 1
    BY <2>1, <1>2, <1>3
  <2> QED BY <2>2, <2>3, <1>3 DEF Below
<1>8. Lines'
  BY <1>2, <1>6, <1>7 DEF Lines
<1> QED BY <1>0, <1>1, <1>2, <1>4, <1>5, <1>8

LEMMA PushIInv == ASSUME IInv, NEW t \in Thread, Push(t) PROVE IInv' /\ Evolves
<1>1. PICK me, n : me = local[t] /\ n = Len(vnodes) + 1
  OBVIOUS
<1>0. /\ me.pc = "push" /\ vhead[me.key] = me.node
      /\ vnodes' = Append(vnodes, NewVnode(me.new, me.node, Invalid))
      /\ vhead' = [vhead EXCEPT ![me.key] = n]
      /\ late' = [late EXCEPT ![me.key] = IF me.key \in frozen THEN @ \cup {n} ELSE @]
      /\ local' = [local EXCEPT ![t].pc = "pushed", ![t].node = n, ![t].old = Removed]
      /\ UNCHANGED <<clock, mob, size, isReclaimed, next, frozen, trained, mhead, calls, done, retired>>
  BY <1>1 DEF Push, HeadUnchanged, At, flags, links, model
<1>2. /\ me \in Locals /\ me.key \in Key /\ me.key \in Linked /\ me.node \in VersionId /\ me.seen = "null"
      /\ vnodes[me.node].ts # Invalid /\ me.new \in Value \cup {Removed}
  BY <1>0, <1>1, ThreadFacts, LocalFacts DEF Writes, NodeSteps, QuerySteps
<1>3. Grows(vnodes', me.node)
  <2>1. Times(vnodes) /\ Invalid \in Invalid .. clock
    BY SameTimes, ThreadFacts, UruvAssumption DEF Shared, Invalid
  <2>2. Shared /\ Lines /\ (me.node # 0 => vnodes[me.node].ts # Invalid)
    BY <1>2, ThreadFacts
  <2>3. PICK x, h, v, ts, w :
            x = vnodes /\ h = me.node /\ v = me.new /\ ts = Invalid /\ w = Append(x, NewVnode(v, h, ts))
    OBVIOUS
  <2>4. Times(x) /\ h \in VersionId /\ v \in Value \cup {Removed} /\ ts \in Invalid .. clock
    BY <2>1, <2>3, <1>2, Zenon
  <2>5. h # 0 => x[h].ts # Invalid
    BY <2>2, <2>3
  <2>6. Grows(w, h)
    BY <2>2, <2>3, <2>4, <2>5, Published
  <2>7. vnodes' = w
    BY <2>3, <1>0
  <2> QED BY <2>3, <2>6, <2>7
<1>4. /\ Lines'
      /\ Len(vnodes) \in Nat /\ Len(vnodes') = n /\ clock \in Nat /\ n \in Nat /\ n # 0
      /\ Version' = Version \cup {n} /\ n \notin VersionId /\ VersionId' = VersionId \cup {n}
      /\ \A g \in VersionId : Chain(g)' = Chain(g)
      /\ Chain(n)' = {n} \cup Chain(me.node)
  BY <1>0, <1>1, <1>2, <1>3, GrowsLines, ThreadFacts
<1>5. /\ vhead \in [Key -> VersionId] /\ mhead \in [Key -> VersionId] /\ late \in [Key -> SUBSET Version]
      /\ done \in [Key -> SUBSET Version] /\ retired \subseteq Version /\ trained \subseteq Key
  BY ThreadFacts DEF Shared
<1>6. /\ vhead'[me.key] = n /\ vhead' \in [Key -> VersionId']
      /\ \A k \in Key : k # me.key => vhead'[k] = vhead[k]
  BY <1>0, <1>2, <1>4, <1>5
<1>7. /\ late' \in [Key -> SUBSET Version'] /\ \A k \in Key : k # me.key => late'[k] = late[k]
      /\ me.key \in frozen => late'[me.key] = late[me.key] \cup {n}
  <2>1. PICK L : L = IF me.key \in frozen THEN late[me.key] \cup {n} ELSE late[me.key]
    OBVIOUS
  <2>2. late' = [late EXCEPT ![me.key] = L] /\ L \subseteq Version'
    BY <2>1, <1>0, <1>2, <1>4, <1>5
  <2>3. late' \in [Key -> SUBSET Version'] /\ late'[me.key] = L /\ \A k \in Key : k # me.key => late'[k] = late[k]
    BY <2>2, <1>2, <1>4, <1>5
  <2> QED BY <2>1, <2>3
<1>8. Linked' = Linked /\ Nodes' = Nodes
  <2>1. \A k \in Key : vhead'[k] # 0 <=> vhead[k] # 0
    <3> SUFFICES ASSUME NEW k \in Key PROVE vhead'[k] # 0 <=> vhead[k] # 0
      OBVIOUS
    <3>1. CASE k = me.key
      BY <3>1, <1>2, <1>4, <1>6 DEF Linked
    <3>2. CASE k # me.key
      BY <3>2, <1>6
    <3> QED BY <3>1, <3>2
  <2> QED BY <2>1 DEF Linked, Nodes
<1>9. Chain(vhead[me.key])' = {n} \cup Chain(vhead[me.key])
  <2>1. Chain(n)' = {n} \cup Chain(vhead[me.key])
    BY <1>0, <1>4
  <2> QED BY <2>1, <1>6 DEF Chain
<1>10. ASSUME NEW k \in Key, k # me.key PROVE Chain(vhead[k])' = Chain(vhead[k])
  <2>1. PICK g : g = vhead[k]
    OBVIOUS
  <2>2. Chain(g)' = Chain(g)
    BY <2>1, <1>4, <1>5
  <2> QED BY <2>1, <2>2, <1>6, <1>10 DEF Chain
<1>11. ASSUME NEW k \in Key PROVE Chain(mhead[k])' = Chain(mhead[k])
  <2>1. PICK g : g = mhead[k]
    OBVIOUS
  <2>2. Chain(g)' = Chain(g)
    BY <2>1, <1>4, <1>5
  <2> QED BY <2>1, <2>2, <1>0 DEF Chain
<1>12. ASSUME NEW k \in Key, k \in frozen PROVE (Chain(vhead[k]) \ late[k])' \subseteq Chain(vhead[k]) \ late[k]
  <2>1. CASE k = me.key
    BY <2>1, <1>7, <1>9, <1>12
  <2>2. CASE k # me.key
    BY <2>2, <1>7, <1>10
  <2> QED BY <2>1, <2>2
<1>13. ASSUME NEW k \in Key PROVE Chain(vhead[k]) \subseteq Chain(vhead[k])'
  BY <1>9, <1>10
<1>14. \A j \in Version : /\ vnodes'[j].below = vnodes[j].below
                          /\ vnodes[j].ts # Invalid => vnodes'[j].ts = vnodes[j].ts
  BY <1>3 DEF Grows
<1>15. Position'
  <2>1. Shared'
    <3>1. mhead' \in [Key -> VersionId'] /\ done' \in [Key -> SUBSET Version'] /\ retired' \subseteq Version'
      BY <1>0, <1>4, <1>5
    <3>2. vnodes' \in Seq(Vnode)
      BY <1>3 DEF Grows
    <3> QED BY <3>1, <3>2, <1>0, <1>6, <1>7, <1>8, ThreadFacts DEF Shared
  <2>2. List'
    BY <1>0, <1>8, ThreadFacts DEF List
  <2>3. Modelled'
    <3>1. ASSUME mob = "model", NEW k \in trained PROVE (Chain(vhead[k]) \ late[k] \subseteq Chain(mhead[k]))'
      <4>1. k \in Key /\ k \in frozen /\ Chain(vhead[k]) \ late[k] \subseteq Chain(mhead[k])
        BY <3>1, <1>5, NodeFacts, ThreadFacts DEF Modelled
      <4> QED BY <4>1, <1>11, <1>12
    <3> QED BY <3>1, <1>0, <1>8, ThreadFacts DEF Modelled
  <2>4. Completed'
    <3>1. \A k \in Key : \A i \in done'[k] : vnodes'[i].ts # Invalid
      BY <1>0, <1>5, <1>14, ThreadFacts DEF Completed
    <3>2. \A i \in retired' : vnodes'[i].ts # Invalid
      BY <1>0, <1>5, <1>14, ThreadFacts DEF Completed
    <3>3. mob' # "model" => \A k \in Key : done'[k] \subseteq Chain(vhead[k])'
      BY <1>0, <1>13, ThreadFacts DEF Completed
    <3>4. \A k \in Key : done'[k] # {} => k \in Linked'
      BY <1>0, <1>8, ThreadFacts DEF Completed
    <3> QED BY <3>1, <3>2, <3>3, <3>4 DEF Completed
  <2> QED BY <2>1, <2>2, <2>3, <2>4, <1>4 DEF Position
<1>16. Evolves
  <2>1. clock' = clock /\ clock <= clock' /\ Len(vnodes) <= Len(vnodes') /\ Len(vnodes') \in Nat
    BY <1>0, <1>1, <1>4
  <2> QED BY <2>1, <1>0, <1>4, <1>8, <1>11, <1>12, <1>13, <1>14 DEF Evolves
<1>17. PICK r : r = [me EXCEPT !.pc = "pushed", !.node = n, !.old = Removed]
  OBVIOUS
<1>18. local' = [local EXCEPT ![t] = r]
  BY <1>0, <1>1, <1>17, ThreadFacts
<1>19. "pushed" \in PC /\ n \in VersionId' /\ Removed \in Value \cup {Removed} /\ me \in Locals'
  BY <1>2, <1>4, <1>16, LocalsGrow DEF PC, WriteSteps
<1>20. r \in Locals' /\ r.pc = "pushed" /\ r.node = n /\ r.key = me.key /\ r.seen = me.seen
  BY <1>17, <1>19 DEF Locals, PC
<1>21. r.node \in Chain(vhead[r.key])' /\ r.key \in Linked'
  BY <1>2, <1>8, <1>9, <1>20
<1>22. Inv(r)' /\ r.pc \notin CountSteps /\ local[t].pc \notin CountSteps
  BY <1>0, <1>1, <1>2, <1>20, <1>21 DEF Inv, Writes, Collects, Queries, PlainSteps, NodeSteps, LoadedSteps, CollectSteps,
     QuerySteps, CountSteps
<1>23. Counted'
  BY <1>0, <1>8, <1>18, <1>22, CountedKept
<1> QED BY <1>15, <1>16, <1>18, <1>20, <1>22, <1>23, StepSuffices

LEMMA ModelWriteIInv == ASSUME IInv, NEW t \in Thread, ModelWrite(t) PROVE IInv' /\ Evolves
<1>1. PICK me, n, key, h, x :
        /\ me = local[t] /\ n = Len(vnodes) + 1 /\ key = local[t].key /\ h = mhead[key]
        /\ x = IF h = 0 THEN vnodes ELSE Stamped(h)
  OBVIOUS
<1>0. /\ me.pc = "model" /\ Return(t)
      /\ vnodes' = Append(x, NewVnode(me.new, h, clock))
      /\ mhead' = [mhead EXCEPT ![key] = n]
      /\ done' = [done EXCEPT ![key] = IF key \in trained THEN @ \cup {n} ELSE @]
      /\ UNCHANGED <<clock, mob, size, isReclaimed, next, frozen, vhead, trained, calls, late, retired>>
  BY <1>1 DEF ModelWrite, At, flags, links
<1>2. /\ me \in Locals /\ key \in Key /\ mob = "model" /\ me.new \in Value \cup {Removed} /\ h \in VersionId
  BY <1>0, <1>1, ThreadFacts, LocalFacts DEF Writes, Shared
<1>3. Grows(vnodes', h) /\ vnodes'[Len(vnodes')].ts = clock
  <2>1. Shared /\ Lines /\ clock \in Invalid .. clock
    BY ThreadFacts, UruvAssumption DEF Shared, Invalid
  <2>2. Times(x) /\ (h # 0 => x[h].ts # Invalid)
    <3>1. CASE h = 0
      BY <3>1, <2>1, <1>1, SameTimes
    <3>2. CASE h # 0
      <4>1. h \in Version /\ x = Stamped(h)
        BY <3>2, <2>1, <1>1, <1>2, VersionFacts
      <4> QED BY <4>1, <2>1, StampedFacts
    <3> QED BY <3>1, <3>2
  <2>3. PICK v, ts, w : v = me.new /\ ts = clock /\ w = Append(x, NewVnode(v, h, ts))
    OBVIOUS
  <2>4. v \in Value \cup {Removed} /\ ts \in Invalid .. clock
    BY <2>1, <2>3, <1>2, Zenon
  <2>7. h \in VersionId /\ Times(x) /\ w = Append(x, NewVnode(v, h, ts))
    BY <2>2, <2>3, <1>2
  <2>8. h # 0 => x[h].ts # Invalid
    BY <2>2
  <2>9. Shared /\ Lines
    BY <2>1
  <2>5. Grows(w, h)
    BY <2>9, <2>4, <2>7, <2>8, Published
  <2>10. w[Len(w)].ts = ts
    BY <2>9, <2>4, <2>7, <2>8, Published
  <2>6. vnodes' = w
    BY <2>3, <1>0
  <2> QED BY <2>3, <2>5, <2>6, <2>10
<1>4. /\ Lines'
      /\ Len(vnodes) \in Nat /\ Len(vnodes') = n /\ clock \in Nat /\ n \in Nat /\ n # 0
      /\ Version' = Version \cup {n} /\ n \notin VersionId /\ VersionId' = VersionId \cup {n}
      /\ \A g \in VersionId : Chain(g)' = Chain(g)
      /\ Chain(n)' = {n} \cup Chain(h)
  BY <1>0, <1>1, <1>2, <1>3, GrowsLines, ThreadFacts
<1>5. /\ vhead \in [Key -> VersionId] /\ mhead \in [Key -> VersionId] /\ late \in [Key -> SUBSET Version]
      /\ done \in [Key -> SUBSET Version] /\ retired \subseteq Version /\ trained = Linked /\ n \notin Version
  BY <1>2, <1>4, ThreadFacts, VersionFacts DEF Shared, Modelled
<1>6. /\ mhead'[key] = n /\ mhead' \in [Key -> VersionId'] /\ \A k \in Key : k # key => mhead'[k] = mhead[k]
  BY <1>0, <1>2, <1>4, <1>5
<1>7. /\ done' \in [Key -> SUBSET Version'] /\ \A k \in Key : k # key => done'[k] = done[k]
      /\ key \in Linked => done'[key] = done[key] \cup {n}
      /\ key \notin Linked => done'[key] = done[key]
  <2>1. PICK L : L = IF key \in trained THEN done[key] \cup {n} ELSE done[key]
    OBVIOUS
  <2>2. done' = [done EXCEPT ![key] = L] /\ L \subseteq Version'
    BY <2>1, <1>0, <1>2, <1>4, <1>5
  <2>3. done' \in [Key -> SUBSET Version'] /\ done'[key] = L /\ \A k \in Key : k # key => done'[k] = done[k]
    BY <2>2, <1>2, <1>4, <1>5
  <2> QED BY <2>1, <2>3, <1>5
<1>8. Linked' = Linked /\ Nodes' = Nodes
  BY <1>0 DEF Linked, Nodes
<1>9. Chain(mhead[key])' = {n} \cup Chain(mhead[key])
  <2>1. Chain(n)' = {n} \cup Chain(mhead[key])
    BY <1>1, <1>4
  <2> QED BY <2>1, <1>6 DEF Chain
<1>10. ASSUME NEW k \in Key, k # key PROVE Chain(mhead[k])' = Chain(mhead[k])
  <2>1. PICK g : g = mhead[k]
    OBVIOUS
  <2>2. Chain(g)' = Chain(g)
    BY <2>1, <1>4, <1>5
  <2> QED BY <2>1, <2>2, <1>6, <1>10 DEF Chain
<1>11. ASSUME NEW k \in Key PROVE Chain(vhead[k])' = Chain(vhead[k])
  <2>1. PICK g : g = vhead[k]
    OBVIOUS
  <2>2. Chain(g)' = Chain(g)
    BY <2>1, <1>4, <1>5
  <2> QED BY <2>1, <2>2, <1>0 DEF Chain
<1>12. ASSUME NEW k \in Key
       PROVE  /\ Chain(mhead[k]) \subseteq Chain(mhead[k])'
              /\ \A i \in Version : i \in Chain(mhead[k])' => i \in Chain(mhead[k])
  BY <1>5, <1>9, <1>10
<1>13. \A j \in Version : /\ vnodes'[j].below = vnodes[j].below
                          /\ vnodes[j].ts # Invalid => vnodes'[j].ts = vnodes[j].ts
  BY <1>3 DEF Grows
<1>14. vnodes'[n].ts # Invalid
  BY <1>3, <1>4 DEF Invalid
<1>15. Position'
  <2>1. Shared'
    <3>1. vhead' \in [Key -> VersionId'] /\ late' \in [Key -> SUBSET Version'] /\ retired' \subseteq Version'
      BY <1>0, <1>4, <1>5
    <3>2. vnodes' \in Seq(Vnode)
      BY <1>3 DEF Grows
    <3> QED BY <3>1, <3>2, <1>0, <1>6, <1>7, <1>8, ThreadFacts DEF Shared
  <2>2. List'
    BY <1>0, <1>8, ThreadFacts DEF List
  <2>3. Modelled'
    <3>1. ASSUME NEW k \in trained
          PROVE  (mhead[k] # 0 /\ Chain(vhead[k]) \ late[k] \subseteq Chain(mhead[k]))'
      <4>1. k \in Key /\ mhead[k] # 0 /\ Chain(vhead[k]) \ late[k] \subseteq Chain(mhead[k])
        BY <1>2, <1>5, NodeFacts, ThreadFacts DEF Modelled
      <4>2. mhead'[k] # 0
        BY <4>1, <1>4, <1>6
      <4>3. (Chain(vhead[k]) \ late[k])' = Chain(vhead[k]) \ late[k]
        BY <4>1, <1>0, <1>11
      <4> QED BY <4>1, <4>2, <4>3, <1>12
    <3> QED BY <3>1, <1>0, <1>2, <1>8, ThreadFacts DEF Modelled
  <2>4. Completed'
    <3>1. ASSUME NEW k \in Key, NEW i \in done'[k] PROVE vnodes'[i].ts # Invalid /\ k \in Linked
      <4>1. CASE i \in done[k]
        BY <4>1, <1>5, <1>13, ThreadFacts DEF Completed
      <4>2. CASE i \notin done[k]
        <5>1. k = key /\ key \in Linked /\ i = n
          BY <4>2, <3>1, <1>7
        <5> QED BY <5>1, <1>14
      <4> QED BY <4>1, <4>2
    <3>2. \A i \in retired' : vnodes'[i].ts # Invalid
      BY <1>0, <1>5, <1>13, ThreadFacts DEF Completed
    <3>3. \A k \in Key : done'[k] # {} => k \in Linked'
      BY <3>1, <1>8
    <3> QED BY <3>1, <3>2, <3>3, <1>0, <1>2 DEF Completed
  <2> QED BY <2>1, <2>2, <2>3, <2>4, <1>4 DEF Position
<1>16. Evolves
  <2>1. clock' = clock /\ clock <= clock' /\ Len(vnodes) <= Len(vnodes') /\ Len(vnodes') \in Nat
    BY <1>0, <1>1, <1>4
  <2>2. \A k \in Key : done[k] \subseteq done'[k]
    <3> SUFFICES ASSUME NEW k \in Key PROVE done[k] \subseteq done'[k]
      OBVIOUS
    <3>1. CASE k = key
      BY <3>1, <1>7
    <3>2. CASE k # key
      BY <3>2, <1>7
    <3> QED BY <3>1, <3>2
  <2> QED BY <2>1, <2>2, <1>0, <1>4, <1>8, <1>11, <1>12, <1>13 DEF Evolves
<1>17. NoCall \in Locals' /\ Inv(NoCall)'
  BY <1>16, LocalsGrow, Kept, NoCallFits, ThreadFacts
<1>18. local' = [local EXCEPT ![t] = NoCall] /\ NoCall.pc \notin CountSteps /\ local[t].pc \notin CountSteps
  BY <1>0, <1>1, NoCallFields DEF Return, CountSteps
<1>19. Counted'
  BY <1>0, <1>8, <1>18, CountedKept
<1> QED BY <1>15, <1>16, <1>17, <1>18, <1>19, StepSuffices

LEMMA LinkIInv == ASSUME IInv, NEW t \in Thread, Link(t) PROVE IInv' /\ Evolves
<1>1. PICK me, n, key : me = local[t] /\ n = Len(vnodes) + 1 /\ key = local[t].key
  OBVIOUS
<1>0. /\ me.pc = "link" /\ me.at \notin frozen /\ next[me.at] = me.right /\ Continue(t, "linked")
      /\ next' = [next EXCEPT ![me.at] = key, ![key] = me.right]
      /\ vhead' = [vhead EXCEPT ![key] = n]
      /\ vnodes' = Append(vnodes, NewVnode(me.new, 0, Invalid))
      /\ UNCHANGED <<clock, mob, size, isReclaimed, frozen, trained, mhead, calls, done, late, retired>>
  BY <1>1 DEF Link, LinkIf, At, flags, model, history
<1>2. /\ me \in Locals /\ key \in Key /\ me.new \in Value \cup {Removed}
      /\ me.at \in Nodes /\ me.at < key /\ me.right \in Linked \cup {MaxNode} /\ key < me.right
  BY <1>0, <1>1, ThreadFacts, LocalFacts DEF Writes
<1>3. /\ key \in Nat /\ me.at \in Nat /\ me.right \in Nat /\ me.at # key /\ key \in MinNode .. NKeys
      /\ me.at \in MinNode .. NKeys /\ key \in 1 .. MaxNode /\ me.right \in 1 .. MaxNode
  <2>1. key \in Nat /\ me.at \in Nat /\ me.right \in Nat /\ key \in MinNode .. NKeys /\ me.at \in MinNode .. NKeys
    BY <1>2, NodeFacts, KeyFacts
  <2>2. key \in 1 .. MaxNode /\ me.right \in 1 .. MaxNode
    <3>1. \A k \in Key : k \in 1 .. MaxNode
      BY UruvAssumption DEF Key, MaxNode
    <3>2. MaxNode \in 1 .. MaxNode
      BY UruvAssumption DEF MaxNode
    <3> QED BY <3>1, <3>2, <1>2, NodeFacts
  <2> QED BY <2>1, <2>2, <1>2
<1>4. key \notin Linked /\ mob # "model" /\ \A k \in Linked : me.at < k => me.right <= k
  <2>1. \A k \in Linked : me.at < k => me.right <= k
    BY <1>0, <1>2, ThreadFacts DEF List
  <2>2. ~(me.right <= key)
    BY <1>2, <1>3
  <2>3. mob # "model"
    BY <1>0, <1>2, ThreadFacts DEF Modelled
  <2> QED BY <2>1, <2>2, <2>3, <1>2
<1>5. Grows(vnodes', 0)
  <2>1. Times(vnodes) /\ Invalid \in Invalid .. clock /\ Shared /\ Lines
    BY SameTimes, ThreadFacts, UruvAssumption DEF Shared, Invalid
  <2>3. PICK x, h, v, ts, w :
            x = vnodes /\ h = 0 /\ v = me.new /\ ts = Invalid /\ w = Append(x, NewVnode(v, h, ts))
    OBVIOUS
  <2>4. Times(x) /\ v \in Value \cup {Removed} /\ ts \in Invalid .. clock
    BY <2>1, <2>3, <1>2, Zenon
  <2>5. h \in VersionId /\ (h # 0 => x[h].ts # Invalid)
    BY <2>1, <2>3, VersionFacts DEF VersionId
  <2>6. Grows(w, h)
    BY <2>1, <2>3, <2>4, <2>5, Published
  <2>7. vnodes' = w
    BY <2>3, <1>0
  <2> QED BY <2>3, <2>6, <2>7
<1>6. /\ Lines'
      /\ Len(vnodes) \in Nat /\ Len(vnodes') = n /\ clock \in Nat /\ n \in Nat /\ n # 0
      /\ Version' = Version \cup {n} /\ n \notin VersionId /\ VersionId' = VersionId \cup {n}
      /\ \A g \in VersionId : Chain(g)' = Chain(g)
  <2>1. 0 \in VersionId /\ Shared /\ Lines
    BY VersionFacts, ThreadFacts DEF VersionId
  <2> QED BY <2>1, <1>0, <1>1, <1>5, GrowsLines
<1>7. /\ vhead \in [Key -> VersionId] /\ mhead \in [Key -> VersionId] /\ late \in [Key -> SUBSET Version]
      /\ done \in [Key -> SUBSET Version] /\ retired \subseteq Version /\ trained \subseteq Key
      /\ next \in [MinNode .. NKeys -> 1 .. MaxNode] /\ frozen \subseteq Nodes
  BY ThreadFacts DEF Shared
<1>8. /\ vhead'[key] = n /\ vhead' \in [Key -> VersionId'] /\ \A k \in Key : k # key => vhead'[k] = vhead[k]
  BY <1>0, <1>2, <1>6, <1>7
<1>9. /\ next' \in [MinNode .. NKeys -> 1 .. MaxNode] /\ next'[me.at] = key /\ next'[key] = me.right
      /\ \A m \in MinNode .. NKeys : m # me.at /\ m # key => next'[m] = next[m]
  BY <1>0, <1>3, <1>7
<1>10. Linked' = Linked \cup {key} /\ Nodes' = Nodes \cup {key} /\ key \notin Nodes /\ vhead[key] = 0
  <2>1. \A k \in Key : vhead'[k] # 0 <=> vhead[k] # 0 \/ k = key
    <3> SUFFICES ASSUME NEW k \in Key PROVE vhead'[k] # 0 <=> vhead[k] # 0 \/ k = key
      OBVIOUS
    <3>1. CASE k = key
      BY <3>1, <1>6, <1>8
    <3>2. CASE k # key
      BY <3>2, <1>8
    <3> QED BY <3>1, <3>2
  <2>2. Linked' = Linked \cup {key} /\ vhead[key] = 0
    BY <2>1, <1>2, <1>4 DEF Linked
  <2>3. key # MinNode
    BY <1>2, KeyFacts
  <2> QED BY <2>2, <2>3, <1>4 DEF Nodes
<1>11. List'
  <2> SUFFICES ASSUME NEW m \in Nodes'
               PROVE  /\ next'[m] \in Linked' \cup {MaxNode} /\ m < next'[m]
                      /\ \A k \in Linked' : m < k => next'[m] <= k
    BY DEF List
  <2>0. m \in Nat /\ \A k \in Linked' : k \in Nat
    BY NodeFacts, KeyFacts
  <2>1. CASE m = me.at
    <3>1. \A k \in Linked : m < k => key <= k
      <4> SUFFICES ASSUME NEW k \in Linked, m < k PROVE key <= k
        OBVIOUS
      <4>1. k \in Nat /\ me.right <= k
        BY <2>1, <1>4, NodeFacts
      <4> QED BY <4>1, <1>2, <1>3
    <3>2. key <= key
      BY <1>3
    <3> QED BY <3>1, <3>2, <2>1, <1>2, <1>9, <1>10
  <2>2. CASE m = key
    <3>1. ASSUME NEW k \in Linked', m < k PROVE me.right <= k
      <4>1. k \in Linked
        BY <3>1, <2>2, <1>3, <1>10
      <4>2. k \in Nat
        BY <4>1, NodeFacts
      <4>3. me.at < k
        BY <4>2, <3>1, <2>2, <1>2, <1>3
      <4> QED BY <4>1, <4>3, <1>4
    <3> QED BY <3>1, <2>2, <1>2, <1>9, <1>10
  <2>3. CASE m # me.at /\ m # key
    <3>0. m \in Nodes /\ m \in MinNode .. NKeys
      BY <2>3, <1>10, NodeFacts
    <3>1. /\ next'[m] = next[m] /\ next[m] \in Linked \cup {MaxNode} /\ m < next[m]
          /\ \A k \in Linked : m < k => next[m] <= k
      BY <3>0, <2>3, <1>9, ThreadFacts DEF List
    <3>2. ASSUME m < key PROVE next[m] <= key
      <4>1. CASE m < me.at
        <5>1. me.at # MinNode
          BY <4>1, <2>0, <1>3 DEF MinNode
        <5>2. me.at \in Linked
          BY <5>1, <1>2, NodeFacts
        <5>3. next[m] <= me.at /\ next[m] \in Nat
          BY <5>2, <4>1, <3>1, NodeFacts, KeyFacts
        <5> QED BY <5>3, <1>2, <1>3
      <4>2. CASE me.at < m
        <5>1. m # MinNode
          BY <4>2, <2>0, <1>3 DEF MinNode
        <5>2. m \in Linked
          BY <5>1, <3>0, NodeFacts
        <5>3. me.right <= m
          BY <5>2, <4>2, <1>4
        <5> QED BY <5>3, <3>2, <2>0, <1>2, <1>3
      <4> QED BY <4>1, <4>2, <2>0, <2>3, <1>3
    <3>3. \A k \in Linked' : m < k => next[m] <= k
      BY <3>1, <3>2, <1>10
    <3> QED BY <3>1, <3>3, <1>10
  <2> QED BY <2>1, <2>2, <2>3
<1>12. ASSUME NEW k \in Key, k # key PROVE Chain(vhead[k])' = Chain(vhead[k])
  <2>1. PICK g : g = vhead[k]
    OBVIOUS
  <2>2. Chain(g)' = Chain(g)
    BY <2>1, <1>6, <1>7
  <2> QED BY <2>1, <2>2, <1>8, <1>12 DEF Chain
<1>13. ASSUME NEW k \in Key PROVE Chain(vhead[k]) \subseteq Chain(vhead[k])'
  <2>1. CASE k = key
    BY <2>1, <1>10 DEF Chain
  <2>2. CASE k # key
    BY <2>2, <1>12
  <2> QED BY <2>1, <2>2
<1>14. \A j \in Version : /\ vnodes'[j].below = vnodes[j].below
                          /\ vnodes[j].ts # Invalid => vnodes'[j].ts = vnodes[j].ts
  BY <1>5 DEF Grows
<1>15. Position'
  <2>1. Shared'
    <3>1. /\ mhead' \in [Key -> VersionId'] /\ done' \in [Key -> SUBSET Version'] /\ retired' \subseteq Version'
          /\ late' \in [Key -> SUBSET Version']
      BY <1>0, <1>6, <1>7
    <3>2. vnodes' \in Seq(Vnode) /\ frozen' \subseteq Nodes'
      BY <1>0, <1>5, <1>7, <1>10 DEF Grows
    <3> QED BY <3>1, <3>2, <1>0, <1>8, <1>9, ThreadFacts DEF Shared
  <2>2. Modelled'
    BY <1>0, <1>4, ThreadFacts DEF Modelled
  <2>3. Completed'
    <3>1. \A k \in Key : \A i \in done'[k] : vnodes'[i].ts # Invalid
      BY <1>0, <1>7, <1>14, ThreadFacts DEF Completed
    <3>2. \A i \in retired' : vnodes'[i].ts # Invalid
      BY <1>0, <1>7, <1>14, ThreadFacts DEF Completed
    <3>3. mob' # "model" => \A k \in Key : done'[k] \subseteq Chain(vhead[k])'
      BY <1>0, <1>13, ThreadFacts DEF Completed
    <3>4. \A k \in Key : done'[k] # {} => k \in Linked'
      BY <1>0, <1>10, ThreadFacts DEF Completed
    <3> QED BY <3>1, <3>2, <3>3, <3>4 DEF Completed
  <2> QED BY <2>1, <2>2, <2>3, <1>6, <1>11 DEF Position
<1>16. Evolves
  <2>1. clock' = clock /\ clock <= clock' /\ Len(vnodes) <= Len(vnodes') /\ Len(vnodes') \in Nat
    BY <1>0, <1>1, <1>6
  <2>2. \A k \in Linked' \ Linked : \E p \in Nodes : p \notin frozen /\ p < k
    BY <1>0, <1>2, <1>10
  <2>3. ASSUME NEW k \in Key \cap frozen PROVE (Chain(vhead[k]) \ late[k])' \subseteq Chain(vhead[k]) \ late[k]
    <3>1. k # key /\ k \in Key
      BY <1>7, <1>10
    <3> QED BY <3>1, <1>0, <1>12
  <2> QED BY <2>1, <2>2, <2>3, <1>0, <1>4, <1>6, <1>10, <1>13, <1>14 DEF Evolves
<1>17. "linked" \in PC
  BY DEF PC, WriteSteps
<1>18. PICK r \in Locals : local' = [local EXCEPT ![t] = r] /\ r.pc = "linked" /\ Afresh(r, local[t])
  BY <1>0, <1>17, ContinueFacts
<1>19. r \in Locals' /\ r.key = key /\ r.seen = "null" /\ r.key \in Linked'
  BY <1>1, <1>10, <1>16, <1>18, LocalsGrow DEF Afresh
<1>20. Inv(r)' /\ r.pc \in CountSteps /\ local[t].pc \notin CountSteps
  BY <1>0, <1>1, <1>18, <1>19 DEF Inv, Writes, Collects, Queries, PlainSteps, NodeSteps, LoadedSteps, CollectSteps,
     QuerySteps, CountSteps
<1>21. Counting' = Counting \cup {t} /\ t \notin Counting
  <2>1. \A u \in Thread : local'[u] = IF u = t THEN r ELSE local[u]
    BY <1>18, ThreadFacts
  <2>2. ASSUME NEW u \in Thread PROVE local'[u].pc \in CountSteps <=> local[u].pc \in CountSteps \/ u = t
    <3>1. CASE u = t
      BY <3>1, <2>1, <1>20
    <3>2. CASE u # t
      BY <3>2, <2>1
    <3> QED BY <3>1, <3>2
  <2> QED BY <2>2, <1>20 DEF Counting
<1>22. Cardinality(Counting') = Cardinality(Counting) + 1 /\ Cardinality(Linked') = Cardinality(Linked) + 1
  BY <1>4, <1>10, <1>21, CountingFinite, FS_AddElement
<1>23. Counted'
  <2>1. size \in Nat /\ size + Cardinality(Counting) = Cardinality(Linked)
    BY DEF IInv, Counted
  <2>2. Cardinality(Counting) \in Nat /\ Cardinality(Linked) \in Nat
    BY CountingFinite
  <2>3. size' \in Nat /\ size' + Cardinality(Counting') = Cardinality(Linked')
    BY <2>1, <2>2, <1>0, <1>22
  <2> QED BY <2>3 DEF Counted
<1> QED BY <1>15, <1>16, <1>18, <1>19, <1>20, <1>23, StepSuffices

-----------------------------------------------------------------------------
(* The invariant *)

LEMMA InitIInv == Init => IInv
<1> SUFFICES ASSUME Init PROVE IInv
  OBVIOUS
<1>1. PICK S \in SUBSET First :
        /\ mob = IF S = {} THEN "null" ELSE "bin"
        /\ vhead = [k \in Key |-> IF k \in S THEN Cardinality({j \in S : j <= k}) ELSE 0]
        /\ next = [n \in MinNode .. NKeys |-> IF n \in S \cup {MinNode}
                        THEN Min({m \in S \cup {MaxNode} : m > n}) ELSE MaxNode]
        /\ size = Cardinality(S)
        /\ vnodes \in [1 .. Cardinality(S) -> [val : Value, ts : {0}, below : {{}}]]
  BY DEF Init
<1>2. /\ clock = 0 /\ frozen = {} /\ isReclaimed = FALSE /\ trained = {} /\ mhead = NoVersions
      /\ local = [t \in Thread |-> NoCall] /\ calls = 0 /\ retired = {}
      /\ done = [k \in Key |-> {vhead[k]} \ {0}] /\ late = [k \in Key |-> {}]
  BY DEF Init
<1>3. S \subseteq Key /\ IsFiniteSet(S) /\ Cardinality(S) \in Nat
  <2>1. S \in SUBSET Key
    BY UruvAssumption DEF Key
  <2>2. IsFiniteSet(Key)
    BY UruvAssumption, FS_Interval DEF Key
  <2> QED BY <2>1, <2>2, FS_Subset, FS_CardinalityType
<1>4. PICK c : c = Cardinality(S)
  OBVIOUS
<1>5. ASSUME NEW k \in S PROVE Cardinality({j \in S : j <= k}) \in 1 .. c
  <2> DEFINE R == {j \in S : j <= k}
  <2>1. R \in SUBSET S /\ k \in R
    BY <1>3, KeyFacts
  <2> HIDE DEF R
  <2>2. IsFiniteSet(R) /\ Cardinality(R) \in Nat /\ Cardinality(R) <= c
    BY <2>1, <1>3, <1>4, FS_Subset, FS_CardinalityType
  <2>3. Cardinality(R) # 0
    BY <2>1, <2>2, FS_EmptySet
  <2>4. Cardinality(R) \in 1 .. c
    BY <2>2, <2>3, <1>3, <1>4
  <2> QED BY <2>4 DEF R
<1>6. /\ vnodes \in Seq(Vnode) /\ Len(vnodes) = c /\ c \in Nat
      /\ \A i \in 1 .. c : vnodes[i].ts = 0 /\ vnodes[i].below = {}
  <2>1. \A e \in [val : Value, ts : {0}, below : {{}}] : e \in Vnode /\ e.ts = 0 /\ e.below = {}
    BY DEF Vnode
  <2>2. \A i \in 1 .. c : vnodes[i] \in [val : Value, ts : {0}, below : {{}}]
    BY <1>1, <1>4
  <2>3. vnodes \in [1 .. c -> Vnode]
    BY <2>1, <1>1, <1>4
  <2>4. vnodes \in Seq(Vnode) /\ Len(vnodes) = c
    BY <2>3, <1>3, <1>4
  <2> QED BY <2>1, <2>2, <2>4, <1>3, <1>4
<1>7. Version = 1 .. c /\ VersionId = 0 .. c
  BY <1>6 DEF Version, VersionId
<1>8. /\ vhead \in [Key -> VersionId] /\ \A k \in S : vhead[k] \in Version /\ vhead[k] # 0
      /\ \A k \in Key : k \notin S => vhead[k] = 0
  <2>1. \A k \in S : vhead[k] \in 1 .. c
    BY <1>1, <1>3, <1>5
  <2>2. \A k \in Key : k \notin S => vhead[k] = 0
    BY <1>1
  <2>3. \A k \in Key : vhead[k] \in 0 .. c
    BY <2>1, <2>2, <1>6
  <2>4. vhead \in [Key -> 0 .. c]
    BY <2>3, <1>1
  <2> QED BY <2>1, <2>2, <2>4, <1>6, <1>7
<1>9. Linked = S /\ Nodes = S \cup {MinNode}
  BY <1>3, <1>8 DEF Linked, Nodes
<1>10. ASSUME NEW n \in Nodes
       PROVE  /\ next[n] \in S \cup {MaxNode} /\ n < next[n] /\ n \in MinNode .. NKeys
              /\ \A k \in S : n < k => next[n] <= k
  <2> DEFINE T == {m \in S \cup {MaxNode} : m > n}
  <2>1. n \in Nat /\ n < MaxNode /\ n \in MinNode .. NKeys /\ MaxNode \in Nat /\ S \subseteq Nat
    BY <1>3, NodeFacts, KeyFacts
  <2>2. T \subseteq Nat /\ MaxNode \in T
    BY <2>1
  <2>3. next[n] = Min(T)
    BY <2>1, <1>1, <1>9
  <2>4. Min(T) \in T /\ \A y \in T : Min(T) <= y
    BY <2>2, MinIn
  <2>5. \A k \in S : n < k => k \in T
    BY <2>1
  <2>6. \A y \in T : n < y /\ y \in S \cup {MaxNode}
    BY <2>1
  <2> HIDE DEF T
  <2> QED BY <2>1, <2>3, <2>4, <2>5, <2>6
<1>11. Shared
  <2>1. next \in [MinNode .. NKeys -> 1 .. MaxNode]
    <3>1. MaxNode \in 1 .. MaxNode /\ \A k \in Key : k \in 1 .. MaxNode
      BY UruvAssumption DEF Key, MaxNode
    <3>2. ASSUME NEW n \in MinNode .. NKeys PROVE next[n] \in 1 .. MaxNode
      <4>1. CASE n \in Nodes
        BY <4>1, <3>1, <1>3, <1>10
      <4>2. CASE n \notin Nodes
        <5>1. next[n] = MaxNode
          BY <4>2, <1>1, <1>9
        <5> QED BY <5>1, <3>1
      <4> QED BY <4>1, <4>2
    <3>3. next = [n \in MinNode .. NKeys |-> next[n]]
      BY <1>1
    <3> QED BY <3>2, <3>3
  <2>2. mhead \in [Key -> VersionId]
    BY <1>2, <1>6, <1>7 DEF NoVersions
  <2>3. done \in [Key -> SUBSET Version] /\ late \in [Key -> SUBSET Version]
    <3>1. \A k \in Key : {vhead[k]} \ {0} \subseteq Version
      BY <1>8
    <3> QED BY <3>1, <1>2
  <2>4. mob \in Mobs /\ isReclaimed \in BOOLEAN
    BY <1>1, <1>2 DEF Mobs
  <2>5. clock \in 0 .. MaxClock /\ calls \in 0 .. MaxCalls
    BY <1>2, UruvAssumption
  <2> QED BY <2>1, <2>2, <2>3, <2>4, <2>5, <1>2, <1>6, <1>8 DEF Shared
<1>12. List
  BY <1>9, <1>10 DEF List
<1>13. Lines
  <2> SUFFICES ASSUME NEW i \in 1 .. c PROVE Below(i)
    BY <1>7 DEF Lines
  <2>1. vnodes[i].ts \in Invalid .. clock
    BY <1>2, <1>6 DEF Invalid
  <2> QED BY <2>1, <1>6 DEF Below
<1>14. Modelled
  BY <1>1, <1>2 DEF Modelled
<1>15. Completed
  <2>1. ASSUME NEW k \in Key, NEW i \in done[k]
        PROVE  k \in Linked /\ vnodes[i].ts # Invalid /\ i \in Chain(vhead[k])
    <3>1. i = vhead[k] /\ vhead[k] # 0
      BY <2>1, <1>2
    <3>2. k \in S
      BY <3>1, <1>8
    <3>3. i \in 1 .. c
      BY <3>1, <3>2, <1>7, <1>8
    <3>4. vnodes[i].ts # Invalid
      BY <3>3, <1>6 DEF Invalid
    <3> QED BY <3>1, <3>2, <3>4, <1>9 DEF Chain
  <2> QED BY <2>1, <1>2 DEF Completed
<1>16. local \in [Thread -> Locals] /\ \A t \in Thread : local[t] = NoCall /\ Inv(local[t])
  BY <1>2, <1>11, NoCallFits
<1>17. Counted
  <2>1. Counting = {}
    BY <1>16, NoCallFields DEF Counting, CountSteps
  <2>2. Cardinality(Counting) = 0
    BY <2>1, FS_EmptySet
  <2> QED BY <2>2, <1>1, <1>3, <1>9 DEF Counted
<1> QED BY <1>11, <1>12, <1>13, <1>14, <1>15, <1>16, <1>17 DEF IInv, Position

LEMMA StutterIInv == ASSUME IInv, UNCHANGED vars PROVE IInv' /\ Evolves
<1>1. UNCHANGED shared /\ size' = size /\ calls' = calls /\ local' = local
  BY DEF vars, shared, flags, links, model, history
<1>2. Position' /\ Evolves
  BY <1>1, SameShared DEF IInv, Position, Shared
<1>3. Linked' = Linked
  BY <1>1, SharedLinked
<1>4. Counted'
  BY <1>1, <1>3 DEF IInv, Counted, Counting
<1>5. local' \in [Thread -> Locals']
  <2>1. \A t \in Thread : local[t] \in Locals'
    BY <1>2, LocalsGrow DEF IInv
  <2>2. local \in [Thread -> Locals']
    BY <2>1 DEF IInv
  <2> QED BY <2>2, <1>1
<1>6. ASSUME NEW t \in Thread PROVE Inv(local[t])'
  <2>1. PICK me : me = local[t]
    OBVIOUS
  <2>2. Inv(me)'
    BY <2>1, <1>1, InvSame DEF IInv
  <2>3. local'[t] = me
    BY <2>1, <1>1
  <2> QED BY <2>2, <2>3 DEF Inv, Writes, Collects, Queries, Read
<1> QED BY <1>2, <1>4, <1>5, <1>6 DEF IInv

LEMMA WriteStepIInv == ASSUME IInv, NEW t \in Thread, WriteStep(t) PROVE IInv' /\ Evolves
<1>1. CASE LoadMob(t) \/ RemoveNothing(t) \/ NewBin(t) \/ NewBinFails(t) \/ TestSize(t) \/ RemoveFull(t)
  BY <1>1, LoadMobIInv, RemoveNothingIInv, NewBinIInv, NewBinFailsIInv, TestSizeIInv, RemoveFullIInv
<1>2. CASE FindHead(t) \/ FindNext(t) \/ FindEnd(t) \/ FindFrozen(t)
  BY <1>2, FindHeadIInv, FindNextIInv, FindEndIInv, FindFrozenIInv
<1>3. CASE Link(t) \/ LinkFails(t) \/ Count(t)
  BY <1>3, LinkIInv, LinkFailsIInv, CountIInv
<1>4. CASE Load(t) \/ Stamp(t) \/ ReadValue(t) \/ Push(t) \/ PushFails(t) \/ ReturnPush(t)
  BY <1>4, LoadIInv, StampIInv, ReadValueIInv, PushIInv, PushFailsIInv, ReturnPushIInv
<1>5. CASE CollectBegin(t) \/ CollectReclaimed(t) \/ Freeze(t) \/ Take(t)
  BY <1>5, CollectBeginIInv, CollectReclaimedIInv, FreezeIInv, TakeIInv
<1>6. CASE Swap(t) \/ SwapFails(t) \/ Flag(t) \/ Reclaim(t) \/ ModelWrite(t) \/ ModelNothing(t)
  BY <1>6, SwapIInv, SwapFailsIInv, FlagIInv, ReclaimIInv, ModelWriteIInv, ModelNothingIInv
<1> QED BY <1>1, <1>2, <1>3, <1>4, <1>5, <1>6 DEF WriteStep

LEMMA QueryStepIInv == ASSUME IInv, NEW t \in Thread, QueryStep(t) PROVE IInv' /\ Evolves
BY QueryMobIInv, QueryHeadIInv, QueryNextIInv, QueryLoadIInv, QueryWalkIInv, QueryReturnIInv DEF QueryStep

LEMMA NextIInv == ASSUME IInv, [Next]_vars PROVE IInv' /\ Evolves
<1>1. CASE Next
  <2>1. PICK t \in Thread : Step(t) \/ CallQuery(t) \/ \E k \in Key, v \in Value \cup {Removed} : CallWrite(t, k, v)
    BY <1>1 DEF Next
  <2> QED BY <2>1, WriteStepIInv, QueryStepIInv, CallQueryIInv, CallWriteIInv DEF Step
<1>2. CASE UNCHANGED vars
  BY <1>2, StutterIInv
<1> QED BY <1>1, <1>2

\* Invariance: the invariant that the results below rest on holds throughout.
THEOREM Invariance == Spec => []IInv
BY InitIInv, NextIInv, PTL DEF Spec

-----------------------------------------------------------------------------
(* The properties *)

\* NothingUndone: no step takes back what others may have seen.  A version that
\* was published keeps the versions it leads to and its timestamp, every list of
\* versions only grows, a frozen pointer stays frozen, a key is linked behind an
\* unfrozen one only, what vCAS pushes onto a frozen node is late, and a position
\* that has become a model stays one (vCAS, init_ts, collect, the swap of mobs_lf).
THEOREM NothingUndone == Spec => [][Evolves]_vars
<1>1. IInv /\ [Next]_vars => [Evolves]_vars
  BY NextIInv
<1> QED BY <1>1, Invariance, PTL DEF Spec

\* TypeCorrect: every variable has its type; a node is counted by the insert that
\* linked it, so the size never exceeds the number of linked nodes, only linked
\* nodes and the first sentinel are frozen, and a version leads to older ones.
THEOREM TypeCorrect == Spec => []TypeOK
<1>1. ASSUME IInv PROVE TypeOK
  <2>1. Shared /\ Lines /\ Counted /\ local \in [Thread -> Locals]
    BY <1>1 DEF IInv, Position
  <2>2. size \in 0 .. Cardinality(Linked)
    <3>1. size \in Nat /\ size + Cardinality(Counting) = Cardinality(Linked)
      BY <2>1 DEF Counted
    <3> QED BY <3>1, CountingFinite
  <2>3. ASSUME NEW i \in Version
        PROVE  vnodes[i] \in [val : Value \cup {Removed}, ts : Invalid .. clock, below : SUBSET (1 .. i - 1)]
    <3>1. vnodes[i] \in Vnode /\ vnodes[i].ts \in Invalid .. clock /\ vnodes[i].below \subseteq 1 .. i - 1
      BY <2>1, VersionFacts DEF Lines, Below
    <3> QED BY <3>1 DEF Vnode
  <2>4. Version \subseteq VersionId
    BY <2>1, VersionFacts
  <2>5. done \in [Key -> SUBSET VersionId] /\ late \in [Key -> SUBSET VersionId] /\ retired \subseteq VersionId
    <3>1. done \in [Key -> SUBSET Version] /\ late \in [Key -> SUBSET Version] /\ retired \subseteq Version
      BY <2>1 DEF Shared
    <3> QED BY <3>1, <2>4
  <2>6. \A t \in Thread : local[t] \in Locals
    BY <2>1
  <2> QED BY <2>1, <2>2, <2>3, <2>5, <2>6 DEF TypeOK, Shared, Version, Nodes
<1> QED BY <1>1, Invariance, PTL

\* KeysKept: the model is trained with exactly the keys that were ever linked
\* (collect and the compare-and-swap of mobs_lf), for any number of threads that
\* insert, freeze and collect at the same time.
THEOREM KeysKept == Spec => []LinkedKept
<1>1. IInv => LinkedKept
  BY DEF IInv, Position, Modelled, LinkedKept
<1> QED BY <1>1, Invariance, PTL

\* OnlyLateLost: an update that the replacement of the list loses was pushed onto a
\* node whose next was frozen already: the window that vCAS leaves open.
THEOREM OnlyLateLost == Spec => []LostAreLate
<1>1. IInv => LostAreLate
  BY DEF IInv, Position, Modelled, LostAreLate
<1> QED BY <1>1, Invariance, PTL

\* UpdatesSeen: a range query finds every update that had returned when it took its
\* timestamp, on the list and on the model, while both change, unless the
\* replacement of the list has lost the update.
THEOREM UpdatesSeen == Spec => []CompletedSeen
<1>1. ASSUME IInv PROVE CompletedSeen
  <2> SUFFICES ASSUME NEW t \in Thread, local[t].seen # "null", NEW k \in Key, k < local[t].at,
                      NEW i \in local[t].tick[k]
               PROVE  i \in Chain(local[t].got[k]) \/ (mob = "model" /\ i \notin Chain(mhead[k]))
    BY DEF CompletedSeen
  <2>1. Writes(local[t]) /\ Queries(local[t])
    BY <1>1, ThreadFacts
  <2>2. local[t].pc \in QuerySteps
    BY <2>1 DEF Writes
  <2>3. Read(local[t])
    BY <2>1, <2>2 DEF Queries
  <2> QED BY <2>3 DEF Read, OnList
<1> QED BY <1>1, Invariance, PTL

\* ReclaimIsSound: the assertion of reclaimMem that every pointer is frozen holds,
\* and the versions that it retires have their timestamps.
THEOREM ReclaimIsSound == Spec => []ReclaimSound
<1>1. ASSUME IInv PROVE ReclaimSound
  <2>1. ASSUME NEW t \in Thread, At(t, "reclaim") PROVE Linked \cup {MinNode} \subseteq frozen
    <3>1. mob = "model"
      BY <1>1, <2>1, ThreadFacts DEF Writes, At
    <3> QED BY <3>1, <1>1 DEF IInv, Position, Modelled, Nodes
  <2>2. \A i \in retired : vnodes[i].ts # Invalid
    BY <1>1 DEF IInv, Position, Completed
  <2> QED BY <2>1, <2>2 DEF ReclaimSound
<1> QED BY <1>1, Invariance, PTL

=============================================================================
