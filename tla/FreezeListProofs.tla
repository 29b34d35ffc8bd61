-------------------------- MODULE FreezeListProofs --------------------------
(***************************************************************************)
(* Proofs about the freezable list, for any number of threads, keys, nodes *)
(* and calls.                                                              *)
(*                                                                         *)
(* The argument: a step does one of five things to the list: nothing, link *)
(* a node, skip a marked node, mark a node, freeze a pointer (ListStep).   *)
(* A marked or frozen pointer leads to the same node for ever.  An         *)
(* unmarked node can be reached from the head, because only marked nodes   *)
(* are skipped, and the nodes that can be reached form one ascending chain *)
(* (Chain): so no key of the set lies between an unmarked node and its     *)
(* successor, which is what find and search conclude from, and no two      *)
(* unmarked nodes have the same key.  A collect leaves a frozen path from  *)
(* the head to where it is (Collecting); once it has reached the tail,     *)
(* that path is the list, and an insert finds no pointer to change.        *)
(*                                                                         *)
(* The last part shows that the list implements FreezableSet: the node     *)
(* that insert links, the mark that remove sets and the first pointer that *)
(* is frozen are the steps that change the set; the others answer a call   *)
(* or change nothing.                                                      *)
(***************************************************************************)
EXTENDS FreezeList, FiniteSetTheorems, SequenceTheorems, WellFoundedInduction, TLAPS

-----------------------------------------------------------------------------
(* The list *)

Node == Linked \cup {TailId}

Pointers ==
    /\ nkey[HeadId] = 0 /\ nkey[TailId] = NKeys + 1
    /\ \A n \in Allocated : nkey[n] \in Key
    /\ \A n \in Linked : next[n].to \in Allocated \cup {TailId}
    /\ next[TailId] = Clean(Null)
    /\ ~ next[HeadId].mark

Shape == Pointers /\ Sorted /\ LiveReachable

\* A set of nodes that contains, with a node, its successor.
Onward(S) == S \subseteq Linked /\ \A p \in S : next[p].to \in S \cup {TailId}

-----------------------------------------------------------------------------
(* The threads *)

\* There is a node for every insert under way.
Inserting == {u \in Thread : op[u] = "insert" /\ pc[u] # "return"}
Room == fresh + Cardinality(Inserting) <= MaxNode + 1

FindPC == {"findRight", "findUnlink", "link", "load", "mark", "unlink"}

\* What the statement of a thread says of its locals.
Local(t) ==
    /\ pc[t] \in {"idle", "return"} => left[t] = HeadId
    /\ pc[t] = "idle" => got[t] = <<>>
    /\ pc[t] = "idle" <=> op[t] = "none"
    /\ pc[t] = "find" \/ pc[t] \in FindPC => op[t] \in Updates
    /\ pc[t] \in FindPC =>
          /\ left[t] \in Linked /\ nkey[left[t]] < key[t]
          /\ right[t] \in Allocated \cup {TailId}
    /\ pc[t] \in {"findUnlink", "unlink"} =>
          /\ right[t] \in Allocated
          /\ next[right[t]].mark /\ next[right[t]].to = word[t].to
    /\ pc[t] = "link" => op[t] = "insert" /\ key[t] < nkey[right[t]]
    /\ pc[t] \in {"load", "mark", "unlink"} =>
          op[t] = "remove" /\ right[t] \in Allocated /\ nkey[right[t]] = key[t]
    /\ pc[t] = "mark" => ~ word[t].mark
    /\ pc[t] = "search" => op[t] = "search" /\ left[t] \in Node
    /\ pc[t] \in {"collect", "collectRead"} => op[t] = "collect" /\ left[t] \in Node
    /\ pc[t] = "collectRead" => left[t] # TailId /\ next[left[t]].freeze

\* A call under way has noted the present state of the set.
Observed(t) ==
    op[t] \in Updates \cup {"search"} /\ pc[t] # "return" =>
        /\ key[t] \in Present => TRUE \in seen[t]
        /\ key[t] \notin Present => FALSE \in seen[t]

\* What find and remove have seen of the set.
Witnessed(t) ==
    /\ pc[t] \in {"findRight", "link"} /\ key[t] < nkey[right[t]] => FALSE \in seen[t]
    /\ pc[t] \in {"load", "mark", "unlink"} =>
          /\ TRUE \in seen[t]
          /\ next[right[t]].mark => FALSE \in seen[t]

\* The nodes W were all in the list at some moment of the call of search for k, or
\* linked since: where they leave k out, the set was without it.
Searched(W, k, s) ==
    /\ Onward(W)
    /\ \A w \in W :
          /\ nkey[w] < k /\ k < nkey[next[w].to] => FALSE \in s
          /\ nkey[w] = k /\ next[w].mark => FALSE \in s

Searching(t) ==
    pc[t] = "search" =>
        /\ \E W \in SUBSET Linked : left[t] \in W \cup {TailId} /\ Searched(W, key[t], seen[t])
        /\ key[t] < nkey[left[t]] => FALSE \in seen[t]

Unmarked == \A n \in Allocated : ~ next[n].mark

RangeOf(s) == {s[i] : i \in DOMAIN s}

Ascending(s) == \A i, j \in DOMAIN s : i < j => nkey[s[i]] < nkey[s[j]]

\* The nodes P are a frozen path from the head to node n.
FrozenPath(P, n) ==
    /\ P \subseteq Linked /\ HeadId \in P \cup {n}
    /\ \A p \in P : next[p].freeze /\ next[p].to \in P \cup {n}

\* What a collect at node n has pushed: the nodes it came through, in their order.
Pushed(P, n, s) ==
    Unmarked => /\ RangeOf(s) \cup {HeadId} = P \cup {n}
                /\ Ascending(s) /\ HeadId \notin RangeOf(s)
                /\ \A p \in RangeOf(s) : nkey[p] <= nkey[n]

Collecting(t) ==
    /\ pc[t] \in {"collect", "collectRead"} =>
          \E P \in SUBSET Linked : FrozenPath(P, left[t]) /\ Pushed(P, left[t], got[t])
    /\ pc[t] = "return" /\ op[t] = "collect" =>
          /\ closed
          /\ Unmarked => RangeOf(got[t]) = Allocated /\ Ascending(got[t])

\* A collect has returned.
Closed == closed => \E P \in SUBSET Linked : FrozenPath(P, TailId)

\* A result is justified: ResultsWitnessed of one thread.
Justified(t) ==
    pc[t] = "return" /\ op[t] # "collect" =>
        /\ result[t] = "yes" => (IF op[t] = "search" THEN {TRUE} ELSE BOOLEAN) \subseteq seen[t]
        /\ result[t] = "no" /\ op[t] = "insert" => TRUE \in seen[t]
        /\ result[t] = "no" /\ op[t] \in {"remove", "search"} => FALSE \in seen[t]

ThreadInv(t) ==
    Local(t) /\ Observed(t) /\ Witnessed(t) /\ Searching(t) /\ Collecting(t) /\ Justified(t)

IInv ==
    /\ TypeOK /\ got \in [Thread -> Seq(NodeId)]
    /\ Shape
    /\ Room
    /\ Closed
    /\ \A t \in Thread : ThreadInv(t)

-----------------------------------------------------------------------------
(* What a step does to the list *)

ListType ==
    /\ nkey \in [NodeId -> 0 .. NKeys + 1] /\ next \in [NodeId -> Word] /\ fresh \in 1 .. MaxNode + 1

\* All pointers but that of n stay, and so do the keys.
Elsewhere(n) == nkey' = nkey /\ \A m \in Node : m # n => next'[m] = next[m]

Linking(l, r, k) ==
    /\ l \in Linked /\ r \in Allocated \cup {TailId} /\ k \in Key /\ fresh <= MaxNode
    /\ nkey[l] < k /\ k < nkey[r]
    /\ next[l].to = r /\ ~ next[l].mark /\ ~ next[l].freeze
    /\ fresh' = fresh + 1
    /\ nkey'[fresh] = k /\ \A m \in Node : nkey'[m] = nkey[m]
    /\ next'[fresh].to = r /\ ~ next'[fresh].mark /\ ~ next'[fresh].freeze
    /\ next'[l].to = fresh /\ ~ next'[l].mark /\ ~ next'[l].freeze
    /\ \A m \in Node : m # l => next'[m] = next[m]

Skipping(l, r) ==
    /\ l \in Linked /\ r \in Allocated
    /\ next[l].to = r /\ ~ next[l].mark /\ ~ next[l].freeze
    /\ next[r].mark
    /\ next'[l].to = next[r].to /\ ~ next'[l].mark
    /\ fresh' = fresh /\ Elsewhere(l)

Marking(n) ==
    /\ n \in Allocated /\ ~ next[n].mark
    /\ next'[n].to = next[n].to /\ next'[n].mark /\ (next'[n].freeze <=> next[n].freeze)
    /\ fresh' = fresh /\ Elsewhere(n)

Freezing(n) ==
    /\ n \in Linked
    /\ next'[n].to = next[n].to /\ (next'[n].mark <=> next[n].mark) /\ next'[n].freeze
    /\ fresh' = fresh /\ Elsewhere(n)

ListStep ==
    \/ UNCHANGED list
    \/ \E l, r, k : Linking(l, r, k)
    \/ \E l, r : Skipping(l, r)
    \/ \E n : Marking(n) \/ Freezing(n)

LEMMA NodeFacts ==
    ASSUME fresh \in 1 .. MaxNode + 1
    PROVE  /\ HeadId \in NodeId /\ TailId \in NodeId /\ HeadId # TailId
           /\ Linked \subseteq NodeId /\ Allocated \subseteq NodeId /\ Node \subseteq NodeId
           /\ TailId \notin Linked /\ TailId \notin Allocated /\ HeadId \notin Allocated
           /\ fresh <= MaxNode => fresh \in NodeId /\ fresh \notin Node
           /\ Null \notin NodeId /\ 1 \in Key
BY BoundsAssumption, SMT DEF HeadId, TailId, NodeId, Linked, Allocated, Node, Null, Key

LEMMA OneMore ==
    ASSUME fresh \in 1 .. MaxNode + 1, fresh' = fresh + 1
    PROVE  Allocated' = Allocated \cup {fresh} /\ Linked' = Linked \cup {fresh}
BY BoundsAssumption, SMT DEF Linked, Allocated

LEMMA Keys ==
    ASSUME ListType
    PROVE  /\ NKeys \in Nat /\ \A n \in NodeId : nkey[n] \in Nat
           /\ \A k \in Key : k \in Nat /\ 0 < k /\ k < NKeys + 1
BY BoundsAssumption, SMT DEF ListType, Key

\* Linking a node.
LEMMA LinkShape ==
    ASSUME ListType, Shape, NEW l, NEW r, NEW k, Linking(l, r, k)
    PROVE  Shape'
<1> USE DEF Linking
<1>0. /\ Allocated' = Allocated \cup {fresh} /\ Linked' = Linked \cup {fresh}
      /\ fresh \notin Node /\ TailId \notin Linked /\ HeadId \in Linked /\ HeadId \notin Allocated
      /\ Allocated \subseteq Linked /\ Linked \subseteq Node /\ TailId \in Node
      /\ \A n \in Linked : n # HeadId => n \in Allocated
  BY NodeFacts, OneMore DEF ListType, Linked, Node
<1>1. Pointers'
  BY <1>0 DEF Shape, Pointers
<1>2. Sorted'
  <2> SUFFICES ASSUME NEW n \in Linked' PROVE nkey'[n] < nkey'[next'[n].to]
    BY DEF Sorted
  <2>1. CASE n = fresh
    BY <2>1, <1>0
  <2>2. CASE n = l
    BY <2>2, <1>0
  <2>3. CASE n # fresh /\ n # l
    BY <2>3, <1>0 DEF Shape, Pointers, Sorted
  <2> QED BY <2>1, <2>2, <2>3
<1>3. LiveReachable'
  <2> SUFFICES ASSUME NEW n \in Allocated', ~ next'[n].mark, NEW S \in SUBSET Linked', HeadId \in S,
                      \A p \in S : next'[p].to \in S \cup {TailId}
               PROVE  n \in S
    BY DEF LiveReachable, InList
  <2> DEFINE T == S \ {fresh}
  <2>1. T \in SUBSET Linked /\ HeadId \in T
    BY <1>0
  <2>2. ASSUME NEW p \in T PROVE next[p].to \in T \cup {TailId}
    <3>1. CASE p = l
      BY <3>1, <1>0
    <3>2. CASE p # l
      BY <3>2, <2>1, <1>0 DEF Shape, Pointers
    <3> QED BY <3>1, <3>2
  <2>3. \A m \in Linked : ~ next[m].mark => m \in T
    BY <2>1, <2>2, <1>0 DEF Shape, LiveReachable, InList
  <2> QED BY <2>3, <1>0
<1> QED BY <1>1, <1>2, <1>3 DEF Shape

\* Skipping a marked node.
LEMMA SkipShape ==
    ASSUME ListType, Shape, NEW l, NEW r, Skipping(l, r)
    PROVE  Shape'
<1> USE DEF Skipping, Elsewhere
<1>0. /\ Allocated' = Allocated /\ Linked' = Linked /\ Node' = Node
      /\ TailId \notin Linked /\ HeadId \in Linked /\ HeadId \notin Allocated
      /\ Allocated \subseteq Linked /\ Linked \subseteq Node /\ TailId \in Node /\ Node \subseteq NodeId
  BY NodeFacts DEF ListType, Linked, Node, Allocated
<1>1. Pointers'
  BY <1>0 DEF Shape, Pointers
<1>2. Sorted'
  <2> SUFFICES ASSUME NEW n \in Linked PROVE nkey[n] < nkey[next'[n].to]
    BY <1>0 DEF Sorted
  <2>1. CASE n = l
    <3>1. nkey[l] < nkey[r] /\ nkey[r] < nkey[next[r].to]
      BY <1>0 DEF Shape, Sorted
    <3>2. nkey[l] \in Nat /\ nkey[r] \in Nat /\ nkey[next[r].to] \in Nat
      BY <1>0, Keys DEF Shape, Pointers
    <3> QED BY <2>1, <3>1, <3>2, SMT
  <2>2. CASE n # l
    BY <2>2, <1>0 DEF Shape, Sorted
  <2> QED BY <2>1, <2>2
<1>3. LiveReachable'
  <2> SUFFICES ASSUME NEW n \in Allocated, ~ next'[n].mark, NEW S \in SUBSET Linked, HeadId \in S,
                      \A p \in S : next'[p].to \in S \cup {TailId}
               PROVE  n \in S
    BY <1>0 DEF LiveReachable, InList
  <2>1. ~ next[n].mark /\ n # r
    BY <1>0
  <2>2. CASE l \in S
    <3> DEFINE T == S \cup {r}
    <3>1. T \in SUBSET Linked /\ HeadId \in T
      BY <1>0
    <3>2. \A p \in T : next[p].to \in T \cup {TailId}
      BY <2>2, <1>0
    <3>3. n \in T
      BY <2>1, <3>1, <3>2 DEF Shape, LiveReachable, InList
    <3> QED BY <2>1, <3>3
  <2>3. CASE l \notin S
    <3>1. \A p \in S : next[p].to \in S \cup {TailId}
      BY <2>3, <1>0
    <3> QED BY <2>1, <3>1 DEF Shape, LiveReachable, InList
  <2> QED BY <2>2, <2>3
<1> QED BY <1>1, <1>2, <1>3 DEF Shape

\* Setting one of the two bits.
LEMMA BitShape ==
    ASSUME ListType, Shape, NEW n, Marking(n) \/ Freezing(n)
    PROVE  Shape'
<1>0. /\ Allocated' = Allocated /\ Linked' = Linked
      /\ TailId \notin Linked /\ HeadId \in Linked /\ HeadId \notin Allocated
      /\ Allocated \subseteq Linked /\ Linked \subseteq Node /\ TailId \in Node
  BY NodeFacts DEF ListType, Linked, Node, Allocated, Marking, Freezing
<1>1. /\ nkey' = nkey /\ n \in Linked
      /\ \A m \in Linked : next'[m].to = next[m].to /\ (next[m].mark => next'[m].mark)
      /\ next'[TailId] = next[TailId] /\ (next'[HeadId].mark <=> next[HeadId].mark)
  BY <1>0 DEF Marking, Freezing, Elsewhere
<1>2. Pointers' /\ Sorted'
  BY <1>0, <1>1 DEF Shape, Pointers, Sorted
<1>3. LiveReachable'
  BY <1>0, <1>1 DEF Shape, LiveReachable, InList
<1> QED BY <1>2, <1>3 DEF Shape

LEMMA StepShape ==
    ASSUME ListType, Shape, ListStep
    PROVE  Shape'
<1>1. CASE UNCHANGED list
  BY <1>1 DEF Shape, Pointers, Sorted, LiveReachable, InList, Linked, Allocated, list
<1> QED BY <1>1, LinkShape, SkipShape, BitShape DEF ListStep

-----------------------------------------------------------------------------
(* The nodes that can be reached are one ascending chain *)

LEMMA Least ==
    ASSUME NEW T, T \subseteq Nat, T # {}
    PROVE  \E x \in T : \A y \in T : x <= y
<1> DEFINE R == {ss \in Nat \X Nat : ss[1] < ss[2]}
<1>1. IsWellFoundedOn(R, Nat)
  BY NatLessThanWellFounded, Zenon DEF OpToRel
<1> HIDE DEF R
<1>2. PICK x \in T : \A y \in T : ~(<<y, x>> \in R)
  BY <1>1, WFMin, Zenon
<1>3. ASSUME NEW y \in T, y < x PROVE FALSE
  <2>1. <<y, x>> \in Nat \X Nat /\ <<y, x>>[1] < <<y, x>>[2]
    BY <1>3
  <2>2. <<y, x>> \in R
    BY <2>1 DEF R
  <2> QED BY <2>2, <1>2
<1> QED BY <1>3, SMT

\* y is not strictly between x and its successor.
NotBetween(x, y) ==
    nkey[y] < nkey[x] \/ y = x \/ y = next[x].to \/ nkey[next[x].to] < nkey[y]

LEMMA Chain ==
    ASSUME ListType, Shape
    PROVE  \A x, y \in Linked : InList(x) /\ InList(y) => NotBetween(x, y)
<1> DEFINE R == {m \in Linked : InList(m)}
           Bad == {m \in R : \E y \in R : ~ NotBetween(m, y)}
           Low == {nkey[m] : m \in Bad}
<1>0. /\ TailId \notin Linked /\ HeadId \in Linked /\ Linked \subseteq NodeId /\ TailId \in NodeId
      /\ \A n \in Linked : n # HeadId => n \in Allocated
      /\ \A n \in NodeId : nkey[n] \in Nat
      /\ \A n \in Linked : next[n].to \in Linked \cup {TailId} /\ nkey[n] < nkey[next[n].to]
      /\ nkey[HeadId] = 0 /\ \A n \in Allocated : 0 < nkey[n]
  BY NodeFacts, Keys DEF ListType, Linked, Shape, Pointers, Sorted
<1>1. SUFFICES ASSUME Bad # {} PROVE FALSE
  OBVIOUS
<1>2. Low \subseteq Nat /\ Low # {}
  BY <1>0, <1>1
<1>3. PICK z \in Bad : \A m \in Bad : nkey[z] <= nkey[m]
  <2> HIDE DEF Bad
  <2>1. PICK b \in Low : \A c \in Low : b <= c
    BY <1>2, Least
  <2>2. PICK z \in Bad : b = nkey[z]
    OBVIOUS
  <2> QED BY <2>1, <2>2
<1>4. z \in R /\ z \in Linked
  OBVIOUS
\* Below z the chain is as it should be, so that the nodes T are closed.
<1> DEFINE T == {x \in R : NotBetween(z, x)}
<1>5. T \in SUBSET Linked /\ HeadId \in T
  <2>1. HeadId \in R
    BY <1>0 DEF InList
  <2>2. NotBetween(z, HeadId)
    BY <1>0, <1>4 DEF NotBetween
  <2> QED BY <2>1, <2>2
<1>6. ASSUME NEW p \in T PROVE next[p].to \in T \cup {TailId}
  <2> DEFINE q == next[p].to
  <2> SUFFICES ASSUME q # TailId PROVE q \in T
    OBVIOUS
  <2>1. p \in Linked /\ q \in Linked /\ InList(p) /\ nkey[p] < nkey[q]
    BY <1>0
  <2>2. InList(q)
    BY <2>1 DEF InList
  <2>3. NotBetween(z, q)
    <3>1. CASE nkey[p] < nkey[z]
      <4>1. p \notin Bad
        BY <3>1, <1>3, <1>0, <2>1, <1>4
      <4>2. NotBetween(p, z)
        BY <4>1, <1>4
      <4> QED BY <4>2, <3>1, <2>1, <1>0, <1>4 DEF NotBetween
    <3>2. CASE p = z
      BY <3>2 DEF NotBetween
    <3>3. CASE p = next[z].to \/ nkey[next[z].to] < nkey[p]
      BY <3>3, <2>1, <1>0, <1>4 DEF NotBetween
    <3> QED BY <3>1, <3>2, <3>3 DEF NotBetween
  <2> QED BY <2>1, <2>2, <2>3
<1>7. \A y \in R : y \in T
  BY <1>5, <1>6 DEF InList
<1> QED BY <1>3, <1>7

\* Unmarked nodes are in the list, and so is the head.
LEMMA UnmarkedInList ==
    ASSUME ListType, Shape, NEW n \in Linked, ~ next[n].mark
    PROVE  InList(n)
BY DEF Shape, LiveReachable, InList, Linked

\* No two nodes of the list have the same key.
LEMMA UniqueKeys ==
    ASSUME ListType, Shape, NEW n \in Linked, NEW m \in Linked, InList(n), InList(m), nkey[n] = nkey[m]
    PROVE  n = m
<1>1. NotBetween(n, m)
  BY Chain
<1>2. nkey[n] < nkey[next[n].to]
  BY DEF Shape, Sorted
<1>3. nkey[n] \in Nat /\ nkey[m] \in Nat /\ nkey[next[n].to] \in Nat
  BY NodeFacts, Keys DEF ListType, Shape, Pointers, Linked
<1> QED BY <1>1, <1>2, <1>3 DEF NotBetween

\* A key between a node of the list and its successor is not in the set.
LEMMA Gap ==
    ASSUME ListType, Shape, NEW n \in Linked, InList(n), NEW k \in Key,
           nkey[n] < k, k < nkey[next[n].to]
    PROVE  k \notin Present
<1> SUFFICES ASSUME NEW m \in Allocated, ~ next[m].mark, nkey[m] = k PROVE FALSE
  BY DEF Present
<1>1. m \in Linked /\ InList(m)
  BY UnmarkedInList DEF Linked
<1>2. NotBetween(n, m)
  BY <1>1, Chain
<1>3. nkey[n] \in Nat /\ k \in Nat /\ nkey[next[n].to] \in Nat
  BY NodeFacts, Keys DEF ListType, Shape, Pointers, Linked
<1> QED BY <1>2, <1>3 DEF NotBetween

\* A removed node that is still in the list is the only one with its key.
LEMMA MarkedAbsent ==
    ASSUME ListType, Shape, NEW n \in Linked, InList(n), next[n].mark
    PROVE  nkey[n] \notin Present
<1> SUFFICES ASSUME NEW m \in Allocated, ~ next[m].mark, nkey[m] = nkey[n] PROVE FALSE
  BY DEF Present
<1>1. m \in Linked /\ InList(m)
  BY UnmarkedInList DEF Linked
<1> QED BY <1>1, UniqueKeys

\* The same of the next state.
Gaps ==
    \A k \in Key, n \in Linked : InList(n) /\ nkey[n] < k /\ k < nkey[next[n].to] => k \notin Present
Removed == \A n \in Linked : InList(n) /\ next[n].mark => nkey[n] \notin Present

LEMMA ShapeFacts == ListType /\ Shape => Gaps /\ Removed
BY Gap, MarkedAbsent DEF Gaps, Removed

LEMMA ShapeFactsNext == ListType' /\ Shape' => Gaps' /\ Removed'
BY ShapeFacts, PTL

-----------------------------------------------------------------------------
(* What lasts *)

LEMMA Evolution ==
    ASSUME ListType, ListStep
    PROVE  /\ Allocated \subseteq Allocated' /\ Linked \subseteq Linked' /\ Node \subseteq Node'
           /\ \A n \in Node : nkey'[n] = nkey[n]
           /\ \A n \in Node : next[n].mark => next'[n].mark /\ next'[n].to = next[n].to
           /\ \A n \in Node : next[n].freeze => next'[n].freeze /\ next'[n].to = next[n].to
           /\ fresh' = fresh \/ fresh' = fresh + 1
<1>0. Linked \subseteq Node /\ Allocated \subseteq Linked
  BY DEF Node, Linked
<1>1. CASE UNCHANGED list
  BY <1>1 DEF list, Allocated, Linked, Node
<1>2. ASSUME NEW l, NEW r, NEW k, Linking(l, r, k)
      PROVE  /\ Allocated \subseteq Allocated' /\ Linked \subseteq Linked' /\ Node \subseteq Node'
             /\ \A n \in Node : nkey'[n] = nkey[n]
             /\ \A n \in Node : next[n].mark => next'[n].mark /\ next'[n].to = next[n].to
             /\ \A n \in Node : next[n].freeze => next'[n].freeze /\ next'[n].to = next[n].to
             /\ fresh' = fresh + 1
  BY <1>0, <1>2, OneMore DEF Linking, ListType, Node
<1>3. ASSUME NEW l, NEW r, Skipping(l, r)
      PROVE  /\ Allocated' = Allocated /\ Linked' = Linked /\ Node' = Node /\ nkey' = nkey
             /\ \A n \in Node : next[n].mark => next'[n].mark /\ next'[n].to = next[n].to
             /\ \A n \in Node : next[n].freeze => next'[n].freeze /\ next'[n].to = next[n].to
             /\ fresh' = fresh
  BY <1>0, <1>3 DEF Skipping, Elsewhere, Allocated, Linked, Node
<1>4. ASSUME NEW m, Marking(m) \/ Freezing(m)
      PROVE  /\ Allocated' = Allocated /\ Linked' = Linked /\ Node' = Node /\ nkey' = nkey
             /\ \A n \in Node : next[n].mark => next'[n].mark /\ next'[n].to = next[n].to
             /\ \A n \in Node : next[n].freeze => next'[n].freeze /\ next'[n].to = next[n].to
             /\ fresh' = fresh
  BY <1>0, <1>4 DEF Marking, Freezing, Elsewhere, Allocated, Linked, Node
<1> QED BY <1>1, <1>2, <1>3, <1>4 DEF ListStep

\* A frozen path stays one, and so does what a collect has pushed on it.
LEMMA PathStays ==
    ASSUME ListType, Shape, ListStep, NEW P \in SUBSET Linked, NEW n \in Node, FrozenPath(P, n)
    PROVE  P \in SUBSET Linked' /\ FrozenPath(P, n)'
BY Evolution DEF FrozenPath, Node

\* Where the nodes passed by a search leave the key out, the set has been without it.
LEMMA SearchStays ==
    ASSUME ListType, ListType', Shape, ListStep, NEW k \in Key, NEW s, NEW s2, s \subseteq s2,
           k \notin Present' => FALSE \in s2,
           NEW W \in SUBSET Linked, Searched(W, k, s)
    PROVE  \E V \in SUBSET Linked' : W \subseteq V /\ Searched(V, k, s2)'
<1> USE DEF Searched, Onward
<1>0. Shape' /\ Linked \subseteq Node /\ Allocated \subseteq Linked /\ TailId \in Node /\ TailId \notin Linked
  BY StepShape, NodeFacts DEF ListType, Linked, Node
<1>1. CASE UNCHANGED list
  BY <1>1 DEF list, Linked, Allocated
<1>2. ASSUME NEW l, NEW r, NEW j, Linking(l, r, j)
      PROVE  \E V \in SUBSET Linked' : W \subseteq V /\ Searched(V, k, s2)'
  <2>0. Linked' = Linked \cup {fresh} /\ fresh \notin Node
    BY <1>2, OneMore, NodeFacts DEF Linking, ListType
  <2>n. nkey[l] \in Nat /\ nkey[r] \in Nat /\ j \in Nat /\ k \in Nat
    BY <1>2, <1>0, NodeFacts, Keys DEF Linking, ListType
  <2>w. ASSUME l \in W, nkey[l] < k, k < nkey[r] PROVE FALSE \in s2
    <3>1. next[l].to = r
      BY <1>2 DEF Linking
    <3> QED BY <2>w, <3>1
  <2>1. CASE l \in W
    <3>0. PICK V : V = W \cup {fresh}
      OBVIOUS
    <3>1. V \in SUBSET Linked' /\ W \subseteq V
      BY <2>0, <3>0
    <3>2. \A w \in V : next'[w].to \in V \cup {TailId}
      <4>1. next'[fresh].to \in V \cup {TailId} /\ next'[l].to \in V
        BY <1>2, <2>1, <3>0 DEF Linking
      <4>2. \A w \in W : w # l => next'[w].to \in V \cup {TailId}
        BY <1>2, <1>0, <3>0 DEF Linking
      <4> QED BY <4>1, <4>2, <3>0
    <3>3. ASSUME NEW w \in V
          PROVE  /\ nkey'[w] < k /\ k < nkey'[next'[w].to] => FALSE \in s2
                 /\ nkey'[w] = k /\ next'[w].mark => FALSE \in s2
      <4>1. CASE w = fresh
        <5>1. nkey'[r] = nkey[r] /\ nkey'[w] = j /\ next'[w].to = r /\ ~ next'[w].mark
          BY <4>1, <1>2 DEF Linking, Node, Linked
        <5>2. nkey[l] < j /\ next[l].to = r
          BY <1>2 DEF Linking
        <5>3. j < k => nkey[l] < k
          BY <5>2, <2>n, SMT
        <5> QED BY <5>1, <5>3, <2>1, <2>w
      <4>2. CASE w = l
        <5>1. nkey'[l] = nkey[l] /\ nkey'[fresh] = j /\ next'[l].to = fresh /\ ~ next'[l].mark
          BY <1>2, <1>0 DEF Linking
        <5>2. j < nkey[r] /\ next[l].to = r
          BY <1>2 DEF Linking
        <5>3. k < j => k < nkey[r]
          BY <5>2, <2>n, SMT
        <5> QED BY <4>2, <5>1, <5>3, <2>1, <2>w
      <4>3. CASE w # fresh /\ w # l
        <5>1. w \in W /\ next'[w] = next[w] /\ next[w].to \in Node
          BY <3>0, <4>3, <1>2, <1>0 DEF Linking, Shape, Pointers
        <5> QED BY <5>1, <1>2, <1>0 DEF Linking
      <4> QED BY <4>1, <4>2, <4>3
    <3>4. Searched(V, k, s2)'
      BY <3>1, <3>2, <3>3
    <3> QED BY <3>1, <3>4
  <2>2. CASE l \notin W
    <3>1. \A w \in W : w \in Node /\ next'[w] = next[w] /\ next[w].to \in Node
      BY <2>2, <1>2, <1>0 DEF Linking, Shape, Pointers
    <3>2. \A w \in W : nkey'[w] = nkey[w] /\ nkey'[next[w].to] = nkey[next[w].to]
      BY <3>1, <1>2 DEF Linking
    <3>3. W \in SUBSET Linked' /\ Searched(W, k, s2)'
      BY <3>1, <3>2, <2>0
    <3> QED BY <3>3
  <2> QED BY <2>1, <2>2
<1>3. ASSUME NEW l, NEW r, Skipping(l, r)
      PROVE  W \in SUBSET Linked' /\ Searched(W, k, s2)'
  <2>0. Linked' = Linked
    BY <1>3 DEF Skipping, Linked, Allocated
  <2>1. Onward(W)'
    <3>1. CASE l \in W
      <4>1. r \in W
        BY <3>1, <1>3, <1>0 DEF Skipping
      <4> QED BY <4>1, <2>0, <1>3, <1>0 DEF Skipping, Elsewhere
    <3>2. CASE l \notin W
      BY <3>2, <2>0, <1>3, <1>0 DEF Skipping, Elsewhere
    <3> QED BY <3>1, <3>2
  <2>2. ASSUME NEW w \in W, nkey'[w] < k, k < nkey'[next'[w].to] PROVE FALSE \in s2
    <3>1. CASE w = l
      <4>1. InList(w)'
        <5>1. w \in Linked' /\ ~ next'[w].mark
          BY <3>1, <1>3, <2>0 DEF Skipping
        <5> QED BY <5>1, <1>0 DEF Shape, LiveReachable, InList, Linked
      <4>2. k \notin Present'
        BY <4>1, <1>0, <2>0, <2>2, ShapeFactsNext DEF Gaps
      <4> QED BY <4>2
    <3>2. CASE w # l
      BY <3>2, <2>2, <1>3, <1>0 DEF Skipping, Elsewhere
    <3> QED BY <3>1, <3>2
  <2>3. ASSUME NEW w \in W, nkey'[w] = k, next'[w].mark PROVE FALSE \in s2
    BY <2>3, <1>3, <1>0 DEF Skipping, Elsewhere
  <2> QED BY <2>0, <2>1, <2>2, <2>3
<1>4. ASSUME NEW n, Marking(n) \/ Freezing(n)
      PROVE  W \in SUBSET Linked' /\ Searched(W, k, s2)'
  <2>0. /\ Linked' = Linked /\ nkey' = nkey /\ n \in Linked
        /\ \A m \in Linked : next'[m].to = next[m].to
        /\ \A m \in Linked : m # n => next'[m] = next[m]
    BY <1>4, <1>0 DEF Marking, Freezing, Elsewhere, Linked, Allocated
  <2>1. ASSUME NEW w \in W, nkey'[w] = k, next'[w].mark PROVE FALSE \in s2
    <3>1. CASE next[w].mark
      BY <3>1, <2>0, <2>1
    <3>2. CASE ~ next[w].mark
      <4>1. w = n /\ InList(w)
        BY <3>2, <2>0, <2>1, UnmarkedInList
      <4>2. InList(w)'
        BY <4>1, <2>0 DEF InList
      <4>3. nkey'[w] \notin Present'
        BY <4>2, <2>0, <2>1, <1>0, ShapeFactsNext DEF Removed
      <4> QED BY <4>3, <2>1
    <3> QED BY <3>1, <3>2
  <2> QED BY <2>0, <2>1
<1> QED BY <1>1, <1>2, <1>3, <1>4 DEF ListStep

-----------------------------------------------------------------------------
(* The threads that a step leaves alone *)

\* What a call under way notes, and what it has noted when it returned.
LEMMA Observes ==
    ASSUME Observe, NEW u \in Thread, op'[u] \in Updates \cup {"search"}, pc[u] # "return"
    PROVE  /\ seen[u] \subseteq seen'[u]
           /\ pc[u] # "idle" => /\ key[u] \in Present' => TRUE \in seen'[u]
                                /\ key[u] \notin Present' => FALSE \in seen'[u]
           /\ pc[u] = "idle" => /\ key'[u] \in Present' => TRUE \in seen'[u]
                                /\ key'[u] \notin Present' => FALSE \in seen'[u]
<1> DEFINE k == IF pc[u] = "idle" THEN key'[u] ELSE key[u]
<1>1. op'[u] \notin {"none", "collect"}
  BY DEF Updates
<1>2. seen'[u] = seen[u] \cup (IF k \in Present' THEN {TRUE} ELSE {FALSE})
  BY <1>1, Zenon DEF Observe, Present, Allocated
<1> HIDE DEF k
<1>3. seen[u] \subseteq seen'[u]
  BY <1>2, Zenon
<1>4. /\ k \in Present' => TRUE \in seen'[u]
      /\ k \notin Present' => FALSE \in seen'[u]
  BY <1>2, Zenon
<1> QED BY <1>3, <1>4, Zenon DEF k

LEMMA ObservedBefore ==
    ASSUME Observe, NEW u \in Thread, op'[u] \in Updates \cup {"search"}, pc[u] = "return"
    PROVE  seen'[u] = seen[u]
<1>1. op'[u] \notin {"none", "collect"}
  BY DEF Updates
<1> QED BY <1>1, Zenon DEF Observe

LEMMA SeenType ==
    ASSUME Observe, seen \in [Thread -> SUBSET BOOLEAN]
    PROVE  seen' \in [Thread -> SUBSET BOOLEAN]
<1> DEFINE k(t) == IF pc[t] = "idle" THEN key'[t] ELSE key[t]
           f(t) == IF op'[t] \in {"none", "collect"} THEN {}
                     ELSE IF pc[t] = "return" THEN seen[t]
                     ELSE seen[t] \cup (IF k(t) \in Present' THEN {TRUE} ELSE {FALSE})
<1>1. seen' = [t \in Thread |-> f(t)]
  BY Zenon DEF Observe, Present, Allocated
<1>2. ASSUME NEW t \in Thread PROVE f(t) \in SUBSET BOOLEAN
  <2>1. seen[t] \in SUBSET BOOLEAN
    OBVIOUS
  <2> HIDE DEF k
  <2>2. (IF k(t) \in Present' THEN {TRUE} ELSE {FALSE}) \in SUBSET BOOLEAN
    BY Zenon
  <2>3. seen[t] \cup (IF k(t) \in Present' THEN {TRUE} ELSE {FALSE}) \in SUBSET BOOLEAN
    BY <2>1, <2>2, Zenon
  <2> QED BY <2>1, <2>3, Zenon
<1> HIDE DEF f
<1> QED BY <1>1, <1>2, Zenon

\* The node that a step marks was the only one with its key.
LEMMA NewlyMarked ==
    ASSUME ListType, ListType', Shape, ListStep, NEW n \in Allocated, ~ next[n].mark, next'[n].mark
    PROVE  nkey[n] \notin Present'
<1>0. n \in Linked /\ n \in Node
  BY DEF Linked, Node
<1>1. PICK m : Marking(m)
  BY <1>0 DEF ListStep, Linking, Skipping, Freezing, Elsewhere, list
<1>2. /\ m = n /\ nkey' = nkey /\ Linked' = Linked
      /\ \A x \in Linked : next'[x].to = next[x].to
  BY <1>0, <1>1 DEF Marking, Elsewhere, Linked, Allocated, Node
<1>3. InList(n)'
  BY <1>0, <1>2, UnmarkedInList DEF InList
<1> QED BY <1>0, <1>2, <1>3, StepShape, ShapeFactsNext DEF Removed

\* After a collect has returned no node is linked.
LEMMA NoLinking ==
    ASSUME ListType, Shape, Closed, closed, NEW l, NEW r, NEW k, Linking(l, r, k)
    PROVE  FALSE
<1>1. PICK P \in SUBSET Linked : FrozenPath(P, TailId)
  BY DEF Closed
<1>2. HeadId \in P /\ \A p \in P : next[p].to \in P \cup {TailId}
  BY <1>1, NodeFacts DEF FrozenPath, ListType
<1>3. l \in Linked /\ InList(l)
  BY UnmarkedInList DEF Linking
<1>4. l \in P
  BY <1>2, <1>3 DEF InList
<1> QED BY <1>1, <1>4 DEF FrozenPath, Linking

LEMMA ClosedStays ==
    ASSUME ListType, Shape, ListStep, Closed, closed
    PROVE  /\ fresh' = fresh /\ Allocated' = Allocated
           /\ \E P \in SUBSET Linked' : FrozenPath(P, TailId)'
<1>1. fresh' = fresh
  BY NoLinking DEF ListStep, Skipping, Marking, Freezing, list
<1>2. PICK P \in SUBSET Linked : FrozenPath(P, TailId)
  BY DEF Closed
<1>3. P \in SUBSET Linked' /\ FrozenPath(P, TailId)'
  BY <1>2, PathStays DEF Node
<1> QED BY <1>1, <1>3 DEF Allocated

\* u does nothing.
Same(u) ==
    /\ pc'[u] = pc[u] /\ op'[u] = op[u] /\ key'[u] = key[u] /\ left'[u] = left[u]
    /\ right'[u] = right[u] /\ word'[u] = word[u] /\ got'[u] = got[u] /\ result'[u] = result[u]

LEMMA Typed == IInv => ListType
BY DEF IInv, TypeOK, ListType

\* What was pushed on a frozen path stays what it was.
LEMMA PushedStays ==
    ASSUME ListType, Shape, ListStep, NEW P \in SUBSET Linked, NEW n \in Node, NEW g, Pushed(P, n, g)
    PROVE  Pushed(P, n, g)'
<1> SUFFICES ASSUME Unmarked'
             PROVE  /\ RangeOf(g) \cup {HeadId} = P \cup {n}
                    /\ Ascending(g)' /\ HeadId \notin RangeOf(g)
                    /\ \A p \in RangeOf(g) : nkey'[p] <= nkey'[n]
  BY DEF Pushed, RangeOf
<1>1. Unmarked
  BY Evolution DEF Unmarked, Node, Linked
<1>2. RangeOf(g) \subseteq Node
  BY <1>1 DEF Pushed, Node
<1>3. \A i \in DOMAIN g : g[i] \in Node
  BY <1>2 DEF RangeOf
<1>4. Ascending(g)'
  BY <1>1, <1>3, Evolution DEF Pushed, Ascending
<1> QED BY <1>1, <1>2, <1>4, Evolution DEF Pushed

LEMMA Others ==
    ASSUME IInv, ListType', ListStep, Observe, closed => closed', NEW u \in Thread, Same(u)
    PROVE  ThreadInv(u)'
<1>0. ListType /\ Shape /\ ThreadInv(u) /\ Closed
  BY Typed DEF IInv
<1>1. /\ Allocated \subseteq Allocated' /\ Linked \subseteq Linked' /\ Node \subseteq Node'
      /\ \A n \in Node : nkey'[n] = nkey[n]
      /\ \A n \in Node : next[n].mark => next'[n].mark /\ next'[n].to = next[n].to
      /\ \A n \in Node : next[n].freeze => next'[n].freeze /\ next'[n].to = next[n].to
      /\ Allocated \subseteq Linked /\ Linked \subseteq Node /\ TailId \in Node
  BY <1>0, Evolution DEF Linked, Node
<1>2. Local(u)'
  <2>0. Local(u)
    BY <1>0 DEF ThreadInv
  <2>1. pc[u] \in FindPC => /\ left[u] \in Linked' /\ nkey'[left[u]] < key[u]
                            /\ right[u] \in Allocated' \cup {TailId} /\ nkey'[right[u]] = nkey[right[u]]
    BY <2>0, <1>1 DEF Local
  <2>2. pc[u] \in {"findUnlink", "unlink"} =>
          right[u] \in Allocated' /\ next'[right[u]].mark /\ next'[right[u]].to = word[u].to
    BY <2>0, <1>1 DEF Local
  <2>3. pc[u] \in {"load", "mark", "unlink"} => right[u] \in Allocated'
    BY <2>0, <1>1 DEF Local
  <2>4. pc[u] \in {"search", "collect", "collectRead"} => left[u] \in Node'
    BY <2>0, <1>1 DEF Local
  <2>5. pc[u] = "collectRead" => next'[left[u]].freeze
    BY <2>0, <1>1 DEF Local
  <2>6. pc[u] \in {"link", "load", "mark", "unlink"} => pc[u] \in FindPC
    BY DEF FindPC
  <2> QED BY <2>0, <2>1, <2>2, <2>3, <2>4, <2>5, <2>6, Zenon DEF Local, Same
<1>3. Observed(u)'
  <2>1. op[u] \in Updates \cup {"search"} => pc[u] # "idle"
    BY <1>0 DEF ThreadInv, Local, Updates
  <2> SUFFICES ASSUME op[u] \in Updates \cup {"search"}, pc[u] # "return"
               PROVE  /\ key[u] \in Present' => TRUE \in seen'[u]
                      /\ key[u] \notin Present' => FALSE \in seen'[u]
    BY DEF Observed, Same
  <2>2. op'[u] \in Updates \cup {"search"} /\ pc[u] # "idle"
    BY <2>1 DEF Same
  <2>3. key[u] \in Present' => TRUE \in seen'[u]
    BY <2>2, Observes
  <2>4. key[u] \notin Present' => FALSE \in seen'[u]
    BY <2>2, Observes
  <2> QED BY <2>3, <2>4
<1>4. op[u] \in Updates \cup {"search"} => seen[u] \subseteq seen'[u]
  BY Observes, ObservedBefore DEF Same
<1>5. Witnessed(u)'
  <2>1. ASSUME pc[u] \in {"findRight", "link"} PROVE key[u] < nkey'[right[u]] => FALSE \in seen'[u]
    <3>1. right[u] \in Node /\ op[u] \in Updates
      BY <2>1, <1>0, <1>1 DEF ThreadInv, Local, FindPC
    <3> QED BY <2>1, <3>1, <1>0, <1>1, <1>4 DEF ThreadInv, Witnessed
  <2>2. ASSUME pc[u] \in {"load", "mark", "unlink"}
        PROVE  TRUE \in seen'[u] /\ (next'[right[u]].mark => FALSE \in seen'[u])
    <3>1. right[u] \in Allocated /\ op[u] = "remove" /\ nkey[right[u]] = key[u]
      BY <2>2, <1>0 DEF ThreadInv, Local
    <3>2. TRUE \in seen'[u] /\ (next[right[u]].mark => FALSE \in seen'[u])
      BY <2>2, <3>1, <1>0, <1>4 DEF ThreadInv, Witnessed, Updates
    <3>3. ASSUME ~ next[right[u]].mark, next'[right[u]].mark PROVE FALSE \in seen'[u]
      <4>1. key[u] \notin Present'
        BY <3>1, <3>3, <1>0, NewlyMarked
      <4> QED BY <4>1, <2>2, <3>1, Observes DEF Same, Updates
    <3> QED BY <3>2, <3>3
  <2> QED BY <2>1, <2>2 DEF Witnessed, Same
<1>6. Searching(u)'
  <2> SUFFICES ASSUME pc[u] = "search"
               PROVE  /\ \E V \in SUBSET Linked' :
                            left'[u] \in V \cup {TailId} /\ Searched(V, key[u], seen[u])'
                      /\ key[u] < nkey'[left[u]] => FALSE \in seen'[u]
    BY DEF Searching, Same
  <2>1. left[u] \in Node /\ op[u] = "search"
    BY <1>0 DEF ThreadInv, Local
  <2>2. PICK W \in SUBSET Linked : left[u] \in W \cup {TailId} /\ Searched(W, key[u], seen[u])
    BY <1>0 DEF ThreadInv, Searching
  <2>3. PICK k, s, s2 : k = key[u] /\ k = key'[u] /\ s = seen[u] /\ s2 = seen'[u]
    BY DEF Same
  <2>4. k \in Key /\ s \subseteq s2 /\ (k \notin Present' => FALSE \in s2)
    BY <2>1, <2>3, <1>4, Observes DEF IInv, TypeOK, Same
  <2>5. Searched(W, k, s)
    BY <2>2, <2>3
  <2>6. PICK V \in SUBSET Linked' : W \subseteq V /\ Searched(V, k, s2)'
    BY <1>0, <2>4, <2>5, SearchStays
  <2>7. Searched(V, key[u], seen[u])'
    BY <2>3, <2>6 DEF Searched, Onward
  <2>8. key[u] < nkey'[left[u]] => FALSE \in seen'[u]
    BY <1>0, <1>1, <1>4, <2>1 DEF ThreadInv, Searching
  <2> QED BY <2>2, <2>6, <2>7, <2>8 DEF Same
<1>7. Collecting(u)'
  <2>1. ASSUME pc[u] \in {"collect", "collectRead"}
        PROVE  \E P \in SUBSET Linked' : FrozenPath(P, left[u])' /\ Pushed(P, left[u], got[u])'
    <3>1. left[u] \in Node
      BY <2>1, <1>0 DEF ThreadInv, Local
    <3>2. PICK P \in SUBSET Linked : FrozenPath(P, left[u]) /\ Pushed(P, left[u], got[u])
      BY <2>1, <1>0 DEF ThreadInv, Collecting
    <3>3. PICK n, g : n = left[u] /\ n = left'[u] /\ g = got[u] /\ g = got'[u]
      BY DEF Same
    <3>4. P \in SUBSET Linked' /\ FrozenPath(P, n)' /\ Pushed(P, n, g)'
      BY <1>0, <3>1, <3>2, <3>3, PathStays, PushedStays
    <3> QED BY <3>3, <3>4 DEF FrozenPath, Pushed, Ascending, RangeOf
  <2>2. ASSUME pc[u] = "return", op[u] = "collect"
        PROVE  closed' /\ (Unmarked' => RangeOf(got[u]) = Allocated' /\ Ascending(got[u])')
    <3>1. closed /\ (Unmarked => RangeOf(got[u]) = Allocated /\ Ascending(got[u]))
      BY <2>2, <1>0 DEF ThreadInv, Collecting
    <3>2. Allocated' = Allocated
      BY <3>1, <1>0, ClosedStays
    <3>3. Unmarked' => Unmarked
      BY <1>1 DEF Unmarked
    <3>4. ASSUME Unmarked' PROVE Ascending(got[u])'
      <4>1. \A i \in DOMAIN got[u] : got[u][i] \in Node
        BY <3>1, <3>3, <3>4, <1>1 DEF RangeOf
      <4> QED BY <4>1, <3>1, <3>3, <3>4, <1>1 DEF Ascending, Same
    <3> QED BY <3>1, <3>2, <3>3, <3>4
  <2> QED BY <2>1, <2>2 DEF Collecting, Same
<1>8. Justified(u)'
  <2>1. ASSUME pc[u] = "return", op[u] \in Updates \cup {"search"} PROVE seen'[u] = seen[u]
    BY <2>1, ObservedBefore DEF Same
  <2>2. op[u] \in Updates \cup {"search", "collect", "none"}
    BY DEF IInv, TypeOK
  <2>3. pc[u] = "return" => op[u] # "none"
    BY <1>0 DEF ThreadInv, Local
  <2> QED BY <2>1, <2>2, <2>3, <1>0 DEF ThreadInv, Justified, Same
<1> QED BY <1>2, <1>3, <1>5, <1>6, <1>7, <1>8 DEF ThreadInv

-----------------------------------------------------------------------------
(* The thread that makes the step *)

Ops == Updates \cup {"search", "collect", "none"}
Results == {"none", "frozen", "yes", "no"}

\* What a step leaves in the locals of t.
Assign(t, p, o, k, l, r, w, g, res) ==
    /\ pc' = [pc EXCEPT ![t] = p] /\ op' = [op EXCEPT ![t] = o] /\ key' = [key EXCEPT ![t] = k]
    /\ left' = [left EXCEPT ![t] = l] /\ right' = [right EXCEPT ![t] = r]
    /\ word' = [word EXCEPT ![t] = w] /\ got' = [got EXCEPT ![t] = g]
    /\ result' = [result EXCEPT ![t] = res]

LEMMA Kept ==
    ASSUME IInv, NEW t \in Thread
    PROVE  /\ op = [op EXCEPT ![t] = op[t]] /\ key = [key EXCEPT ![t] = key[t]]
           /\ left = [left EXCEPT ![t] = left[t]] /\ right = [right EXCEPT ![t] = right[t]]
           /\ word = [word EXCEPT ![t] = word[t]] /\ got = [got EXCEPT ![t] = got[t]]
           /\ result = [result EXCEPT ![t] = result[t]]
BY Zenon DEF IInv, TypeOK

LEMMA LocalTypes ==
    ASSUME IInv, NEW t \in Thread
    PROVE  /\ pc[t] \in PC /\ op[t] \in Ops /\ key[t] \in Key /\ left[t] \in NodeId /\ right[t] \in NodeId
           /\ word[t] \in Word /\ got[t] \in Seq(NodeId) /\ result[t] \in Results
           /\ ThreadInv(t) /\ ListType /\ Shape /\ Closed
BY Typed DEF IInv, TypeOK, Ops, Results

LEMMA Values ==
    ASSUME IInv, NEW t \in Thread, NEW p, NEW o, NEW k, NEW l, NEW r, NEW w, NEW g, NEW res,
           Assign(t, p, o, k, l, r, w, g, res)
    PROVE  /\ pc'[t] = p /\ op'[t] = o /\ key'[t] = k /\ left'[t] = l /\ right'[t] = r
           /\ word'[t] = w /\ got'[t] = g /\ result'[t] = res
           /\ \A u \in Thread : u # t => Same(u)
BY Zenon DEF IInv, TypeOK, Assign, Same

LEMMA TypesStay ==
    ASSUME IInv, NEW t \in Thread, NEW p \in PC, NEW o \in Ops, NEW k \in Key, NEW l \in NodeId,
           NEW r \in NodeId, NEW w \in Word, NEW g \in Seq(NodeId), NEW res \in Results,
           Assign(t, p, o, k, l, r, w, g, res),
           ListType', Observe, calls' \in 0 .. MaxCalls, closed' \in BOOLEAN
    PROVE  TypeOK' /\ got' \in [Thread -> Seq(NodeId)]
<1>1. got' \in [Thread -> Seq(NodeId)]
  BY Zenon DEF IInv, Assign
<1>2. /\ pc' \in [Thread -> PC] /\ op' \in [Thread -> Ops] /\ key' \in [Thread -> Key]
      /\ left' \in [Thread -> NodeId] /\ right' \in [Thread -> NodeId] /\ word' \in [Thread -> Word]
      /\ result' \in [Thread -> Results]
  BY Zenon DEF IInv, TypeOK, Assign, Ops, Results
<1>3. seen' \in [Thread -> SUBSET BOOLEAN]
  BY SeenType DEF IInv, TypeOK
<1>4. \A u \in Thread : got'[u] \in Seq(NodeId)
  BY <1>1
<1> QED BY <1>1, <1>2, <1>3, <1>4, Zenon DEF TypeOK, ListType, Ops, Results

LEMMA RoomStays ==
    ASSUME IInv, NEW t \in Thread, \A u \in Thread : u # t => Same(u), fresh' = fresh,
           op'[t] = "insert" /\ pc'[t] # "return" => op[t] = "insert" /\ pc[t] # "return"
    PROVE  Room'
<1>1. Inserting' \subseteq Inserting
  BY DEF Inserting, Same
<1>2. IsFiniteSet(Inserting)
  BY BoundsAssumption, FS_Subset DEF Inserting
<1>3. /\ Cardinality(Inserting') <= Cardinality(Inserting)
      /\ Cardinality(Inserting') \in Nat /\ Cardinality(Inserting) \in Nat
  BY <1>1, <1>2, FS_Subset, FS_CardinalityType
<1> QED BY <1>3, Typed, BoundsAssumption, SMT DEF IInv, Room, ListType

\* A step keeps the invariant if it does one of the five things to the list and
\* the thread that makes it keeps its part.
LEMMA StepSuffices ==
    ASSUME IInv, NEW t \in Thread, NEW p \in PC, NEW o \in Ops, NEW k \in Key, NEW l \in NodeId,
           NEW r \in NodeId, NEW w \in Word, NEW g \in Seq(NodeId), NEW res \in Results,
           Assign(t, p, o, k, l, r, w, g, res),
           ListType', ListStep, Observe, calls' \in 0 .. MaxCalls,
           closed' = closed \/ (closed' = TRUE /\ \E P \in SUBSET Linked' : FrozenPath(P, TailId)'),
           Room', ThreadInv(t)'
    PROVE  IInv'
<1>1. closed' \in BOOLEAN /\ (closed => closed')
  BY Zenon DEF IInv, TypeOK
<1>2. TypeOK' /\ got' \in [Thread -> Seq(NodeId)]
  BY <1>1, TypesStay, Zenon
<1>3. ASSUME NEW u \in Thread PROVE ThreadInv(u)'
  BY <1>1, Values, Others, Zenon
<1>4. Shape'
  BY LocalTypes, StepShape
<1>5. Closed'
  BY LocalTypes, ClosedStays DEF Closed
<1> QED BY <1>2, <1>3, <1>4, <1>5 DEF IInv

\* Steps within find, insert and remove.
LEMMA FindMoves ==
    ASSUME IInv, NEW t \in Thread, pc[t] \in {"find"} \cup FindPC,
           NEW p \in {"find"} \cup FindPC, NEW l \in NodeId, NEW r \in NodeId, NEW w \in Word,
           Assign(t, p, op[t], key[t], l, r, w, got[t], result[t]),
           ListType', ListStep, Observe, UNCHANGED <<fresh, calls, closed>>,
           Local(t)', Witnessed(t)'
    PROVE  IInv'
<1>1. p \in PC /\ p \notin {"idle", "return", "search", "collect", "collectRead"}
  BY DEF FindPC, PC
<1>2. op[t] \in Updates /\ pc[t] \notin {"idle", "return"}
  BY LocalTypes DEF ThreadInv, Local, FindPC
<1>3. /\ pc'[t] = p /\ op'[t] = op[t] /\ key'[t] = key[t] /\ \A u \in Thread : u # t => Same(u)
  BY Values, Zenon
<1>4. Observed(t)'
  <2>1. op'[t] \in Updates \cup {"search"} /\ pc[t] # "idle" /\ pc[t] # "return"
    BY <1>2, <1>3
  <2>2. key[t] \in Present' => TRUE \in seen'[t]
    BY <2>1, Observes
  <2>3. key[t] \notin Present' => FALSE \in seen'[t]
    BY <2>1, Observes
  <2> QED BY <1>3, <2>2, <2>3, Zenon DEF Observed
<1>5. Searching(t)' /\ Collecting(t)' /\ Justified(t)'
  BY <1>1, <1>3 DEF Searching, Collecting, Justified
<1>6. ThreadInv(t)'
  BY <1>4, <1>5 DEF ThreadInv
<1>7. Room'
  BY <1>2, <1>3, RoomStays
<1>8. calls' \in 0 .. MaxCalls
  BY DEF IInv, TypeOK
<1> QED BY <1>1, <1>6, <1>7, <1>8, LocalTypes, StepSuffices, Zenon

\* The returns of insert, remove and search.
LEMMA Responds ==
    ASSUME IInv, NEW t \in Thread, op[t] \in Updates \cup {"search"}, NEW from, NEW res \in Results,
           Respond(t, from, res), UNCHANGED <<got, closed, calls>>,
           ListType', ListStep, Observe, fresh' = fresh \/ Room', Justified(t)'
    PROVE  IInv'
<1>1. Assign(t, "return", op[t], 1, HeadId, HeadId, Clean(TailId), got[t], res)
  BY Kept, Zenon DEF Respond, Goto, Assign
<1>2. /\ pc'[t] = "return" /\ op'[t] = op[t] /\ left'[t] = HeadId
      /\ \A u \in Thread : u # t => Same(u)
  BY <1>1, Values
<1>3. op[t] # "collect" /\ op[t] # "none"
  BY DEF Updates
<1>4. Local(t)'
  BY <1>2, <1>3 DEF Local, FindPC
<1>5. Observed(t)' /\ Witnessed(t)' /\ Searching(t)' /\ Collecting(t)'
  BY <1>2, <1>3 DEF Observed, Witnessed, Searching, Collecting
<1>6. ThreadInv(t)'
  BY <1>4, <1>5 DEF ThreadInv
<1>7. Room'
  BY <1>2, RoomStays
<1>8. /\ "return" \in PC /\ 1 \in Key /\ HeadId \in NodeId /\ TailId \in NodeId
      /\ calls' \in 0 .. MaxCalls
  BY NodeFacts, LocalTypes DEF PC, ListType, IInv, TypeOK
<1>9. Clean(TailId) \in Word
  BY <1>8 DEF Clean, Word
<1> QED BY <1>1, <1>6, <1>7, <1>8, <1>9, LocalTypes, StepSuffices, Zenon

-----------------------------------------------------------------------------
(* find *)

\* The facts of a step that leaves the list alone.
LEMMA ListSame ==
    ASSUME IInv, UNCHANGED list
    PROVE  /\ ListType' /\ ListStep /\ fresh' = fresh /\ nkey' = nkey /\ next' = next
           /\ Allocated' = Allocated /\ Linked' = Linked /\ Node' = Node /\ Present' = Present
BY Typed DEF ListType, ListStep, list, Allocated, Linked, Node, Present

\* The nodes and keys that a step may meet.
LEMMA NodeKeys ==
    ASSUME IInv, NEW t \in Thread
    PROVE  /\ key[t] \in Nat /\ 0 < key[t] /\ key[t] < NKeys + 1 /\ NKeys \in Nat
           /\ \A n \in Node : nkey[n] \in Nat /\ n \in NodeId
           /\ nkey[HeadId] = 0 /\ nkey[TailId] = NKeys + 1
           /\ Allocated \subseteq Linked /\ Linked \subseteq Node /\ TailId \in Node /\ HeadId \in Linked
           /\ TailId \notin Linked
           /\ \A n \in Linked : next[n].to \in Allocated \cup {TailId}
           /\ ~ next[HeadId].mark /\ next[TailId] = Clean(Null)
BY LocalTypes, Keys, NodeFacts DEF Shape, Pointers, Linked, Node, ListType

\* A call of find has the present state of the set among what it has seen.
LEMMA FindSees ==
    ASSUME IInv, NEW t \in Thread, pc[t] \in {"find"} \cup FindPC, Observe, op' = op
    PROVE  /\ op[t] \in Updates /\ seen[t] \subseteq seen'[t]
           /\ key[t] \in Present => TRUE \in seen[t]
           /\ key[t] \in Present' => TRUE \in seen'[t]
           /\ key[t] \notin Present' => FALSE \in seen'[t]
<1>1. op[t] \in Updates /\ pc[t] # "idle" /\ pc[t] # "return"
  BY LocalTypes DEF ThreadInv, Local, FindPC
<1>2. op'[t] \in Updates \cup {"search"}
  BY <1>1
<1>3. key[t] \in Present => TRUE \in seen[t]
  BY <1>1, LocalTypes, Zenon DEF ThreadInv, Observed
<1>4. /\ seen[t] \subseteq seen'[t]
      /\ key[t] \in Present' => TRUE \in seen'[t]
      /\ key[t] \notin Present' => FALSE \in seen'[t]
  BY <1>1, <1>2, Observes, Zenon
<1> QED BY <1>1, <1>3, <1>4, Zenon

LEMMA FindFromHeadIInv ==
    ASSUME IInv, NEW t \in Thread, FindFromHead(t), Observe, UNCHANGED calls
    PROVE  IInv'
<1> DEFINE q == next[HeadId].to
<1>0. pc[t] = "find" /\ UNCHANGED <<nkey, next, fresh, op, key, closed>> /\ UNCHANGED list
  BY DEF FindFromHead, Goto, list, call
<1>1. Assign(t, "findRight", op[t], key[t], HeadId, q, word[t], got[t], result[t])
  BY Kept, Zenon DEF FindFromHead, Goto, Assign, call
<1>2. /\ pc'[t] = "findRight" /\ op'[t] = op[t] /\ key'[t] = key[t] /\ left'[t] = HeadId /\ right'[t] = q
  BY <1>1, Values
<1>3. q \in Allocated \cup {TailId} /\ q \in NodeId /\ HeadId \in NodeId /\ nkey[HeadId] < key[t]
  BY NodeKeys
<1>4. op[t] \in Updates
  BY <1>0, FindSees
<1>5. Local(t)'
  <2>1. op[t] # "none"
    BY <1>4 DEF Updates
  <2> QED BY <1>0, <1>2, <1>3, <1>4, <2>1, ListSame, NodeKeys DEF Local, FindPC
<1>6. Witnessed(t)'
  <2> SUFFICES ASSUME key[t] < nkey[q] PROVE FALSE \in seen'[t]
    BY <1>0, <1>2 DEF Witnessed
  <2>1. InList(HeadId)
    BY DEF InList
  <2>2. key[t] \notin Present
    BY <2>1, <1>3, Gap, LocalTypes, NodeKeys
  <2> QED BY <2>2, <1>0, FindSees, ListSame
<1>7. pc[t] \in {"find"} \cup FindPC /\ "findRight" \in {"find"} \cup FindPC
  BY <1>0 DEF FindPC
<1> QED BY <1>0, <1>1, <1>3, <1>5, <1>6, <1>7, ListSame, LocalTypes, FindMoves, Zenon

LEMMA FindFrozenIInv ==
    ASSUME IInv, NEW t \in Thread, FindFrozen(t), Observe, UNCHANGED calls
    PROVE  IInv'
<1>0. UNCHANGED <<got, closed>> /\ UNCHANGED list
  BY DEF FindFrozen
<1>1. PICK from \in {"find", "findRight"} : Respond(t, from, "frozen")
  BY DEF FindFrozen
<1>2. pc[t] \in {"find"} \cup FindPC /\ op' = op /\ op[t] \in Updates
  BY <1>1, LocalTypes DEF Respond, Goto, FindPC, ThreadInv, Local
<1>3. result'[t] = "frozen"
  BY <1>1 DEF Respond, IInv, TypeOK
<1>4. Justified(t)'
  BY <1>3 DEF Justified
<1>5. "frozen" \in Results
  BY DEF Results
<1> QED BY <1>0, <1>1, <1>2, <1>4, <1>5, ListSame, Responds, Zenon

LEMMA FindMarkedIInv ==
    ASSUME IInv, NEW t \in Thread, FindMarked(t), Observe, UNCHANGED calls
    PROVE  IInv'
<1> DEFINE w == next[right[t]]
<1>0. pc[t] = "findRight" /\ UNCHANGED closed /\ UNCHANGED list /\ op' = op /\ w.mark
  BY DEF FindMarked, Goto, call
<1>1. Assign(t, "findUnlink", op[t], key[t], left[t], right[t], w, got[t], result[t])
  BY Kept, Zenon DEF FindMarked, Goto, Assign, call
<1>2. /\ pc'[t] = "findUnlink" /\ op'[t] = op[t] /\ key'[t] = key[t] /\ left'[t] = left[t]
      /\ right'[t] = right[t] /\ word'[t] = w
  BY <1>1, Values
<1>3. op[t] \in Updates /\ left[t] \in Linked /\ nkey[left[t]] < key[t] /\ right[t] \in Allocated \cup {TailId}
  BY <1>0, LocalTypes DEF ThreadInv, Local, FindPC
<1>4. right[t] \in Allocated
  <2>1. ~ next[TailId].mark
    BY NodeKeys DEF Clean
  <2> QED BY <2>1, <1>0, <1>3
<1>5. Local(t)'
  <2>1. op[t] # "none"
    BY <1>3 DEF Updates
  <2> QED BY <1>0, <1>2, <1>3, <1>4, <2>1, ListSame DEF Local, FindPC
<1>6. Witnessed(t)'
  BY <1>2 DEF Witnessed
<1>7. pc[t] \in {"find"} \cup FindPC /\ "findUnlink" \in {"find"} \cup FindPC
  BY <1>0 DEF FindPC
<1>8. w \in Word
  BY LocalTypes DEF ListType
<1> QED BY <1>0, <1>1, <1>5, <1>6, <1>7, <1>8, ListSame, LocalTypes, FindMoves, Zenon

\* find, insert and remove begin anew.
LEMMA RetryIInv ==
    ASSUME IInv, NEW t \in Thread, FindRetry(t) \/ InsertRetry(t) \/ RemoveRetry(t),
           Observe, UNCHANGED calls
    PROVE  IInv'
<1>0. pc[t] \in FindPC /\ UNCHANGED closed /\ UNCHANGED list /\ op' = op
  BY DEF FindRetry, InsertRetry, RemoveRetry, Goto, call, FindPC
<1>1. Assign(t, "find", op[t], key[t], left[t], right[t], word[t], got[t], result[t])
  BY Kept, Zenon DEF FindRetry, InsertRetry, RemoveRetry, Goto, Assign, call, locals
<1>2. pc'[t] = "find" /\ op'[t] = op[t]
  BY <1>1, Values
<1>3. op[t] \in Updates
  BY <1>0, LocalTypes DEF ThreadInv, Local
<1>4. Local(t)' /\ Witnessed(t)'
  <2>1. op[t] # "none"
    BY <1>3 DEF Updates
  <2> QED BY <1>2, <1>3, <2>1 DEF Local, FindPC, Witnessed
<1> QED BY <1>0, <1>1, <1>4, ListSame, LocalTypes, FindMoves, Zenon

LEMMA FindAdvanceIInv ==
    ASSUME IInv, NEW t \in Thread, FindAdvance(t), Observe, UNCHANGED calls
    PROVE  IInv'
<1> DEFINE n == right[t]
           q == next[n].to
<1>0. /\ pc[t] = "findRight" /\ UNCHANGED closed /\ UNCHANGED list /\ op' = op
      /\ nkey[n] < key[t] /\ ~ next[n].mark
  BY DEF FindAdvance, Advance, Goto, call
<1>1. Assign(t, "findRight", op[t], key[t], n, q, word[t], got[t], result[t])
  BY Kept, Zenon DEF FindAdvance, Advance, Goto, Assign, call
<1>2. /\ pc'[t] = "findRight" /\ op'[t] = op[t] /\ key'[t] = key[t] /\ left'[t] = n /\ right'[t] = q
  BY <1>1, Values
<1>3. op[t] \in Updates /\ n \in Allocated \cup {TailId}
  BY <1>0, LocalTypes DEF ThreadInv, Local, FindPC
<1>4. n \in Linked /\ q \in Allocated \cup {TailId} /\ q \in NodeId
  BY <1>0, <1>3, NodeKeys
<1>5. Local(t)'
  <2>1. op[t] # "none"
    BY <1>3 DEF Updates
  <2> QED BY <1>0, <1>2, <1>3, <1>4, <2>1, ListSame DEF Local, FindPC
<1>6. Witnessed(t)'
  <2> SUFFICES ASSUME key[t] < nkey[q] PROVE FALSE \in seen'[t]
    BY <1>0, <1>2, ListSame DEF Witnessed
  <2>1. InList(n)
    BY <1>0, <1>4, LocalTypes, UnmarkedInList
  <2>2. key[t] \notin Present
    BY <2>1, <1>0, <1>4, Gap, LocalTypes
  <2>3. pc[t] \in {"find"} \cup FindPC
    BY <1>0 DEF FindPC
  <2> QED BY <2>2, <2>3, <1>0, FindSees, ListSame
<1>7. pc[t] \in {"find"} \cup FindPC /\ "findRight" \in {"find"} \cup FindPC
  BY <1>0 DEF FindPC
<1> QED BY <1>0, <1>1, <1>4, <1>5, <1>6, <1>7, ListSame, LocalTypes, FindMoves, Zenon

\* A successful compare-and-swap that skips the marked right node.
LEMMA SkipStep ==
    ASSUME IInv, NEW t \in Thread, pc[t] \in {"findUnlink", "unlink"}, NEW w \in Word,
           CAS(left[t], Clean(right[t]), w), w.to = word[t].to, ~ w.mark, UNCHANGED <<nkey, fresh>>
    PROVE  /\ Skipping(left[t], right[t]) /\ ListStep /\ ListType'
           /\ next'[left[t]].to = word[t].to /\ ~ next'[left[t]].mark
<1>1. /\ left[t] \in Linked /\ right[t] \in Allocated /\ next[right[t]].mark
      /\ next[right[t]].to = word[t].to
  BY LocalTypes DEF ThreadInv, Local, FindPC
<1>2. left[t] \in NodeId /\ Node \subseteq NodeId /\ ListType /\ next \in [NodeId -> Word]
  BY LocalTypes, NodeKeys DEF ListType
<1>3. /\ next[left[t]].to = right[t] /\ ~ next[left[t]].mark /\ ~ next[left[t]].freeze
  BY DEF CAS, Clean
<1>4. next' = [next EXCEPT ![left[t]] = w]
  BY DEF CAS
<1>5. next' \in [NodeId -> Word] /\ next'[left[t]] = w /\ \A m \in NodeId : m # left[t] => next'[m] = next[m]
  BY <1>2, <1>4, Zenon
<1>6. Skipping(left[t], right[t])
  BY <1>1, <1>2, <1>3, <1>5 DEF Skipping, Elsewhere
<1>7. ListType'
  BY <1>2, <1>5 DEF ListType
<1> QED BY <1>5, <1>6, <1>7 DEF ListStep

LEMMA FindUnlinkIInv ==
    ASSUME IInv, NEW t \in Thread, FindUnlink(t), Observe, UNCHANGED calls
    PROVE  IInv'
<1> DEFINE q == word[t].to
<1>0. /\ pc[t] = "findUnlink" /\ UNCHANGED <<nkey, fresh, op, closed>>
      /\ CAS(left[t], Clean(right[t]), Clean(q))
  BY DEF FindUnlink, Goto, call
<1>1. Assign(t, "findRight", op[t], key[t], left[t], q, word[t], got[t], result[t])
  BY Kept, Zenon DEF FindUnlink, Goto, Assign, call
<1>2. /\ pc'[t] = "findRight" /\ op'[t] = op[t] /\ key'[t] = key[t] /\ left'[t] = left[t] /\ right'[t] = q
  BY <1>1, Values
<1>3. /\ op[t] \in Updates /\ left[t] \in Linked /\ nkey[left[t]] < key[t]
      /\ right[t] \in Allocated /\ next[right[t]].to = q
  BY <1>0, LocalTypes DEF ThreadInv, Local, FindPC
<1>4. q \in Allocated \cup {TailId} /\ q \in NodeId
  BY <1>3, NodeKeys
<1>5. Clean(q) \in Word /\ Clean(q).to = q /\ ~ Clean(q).mark
  BY <1>4 DEF Clean, Word
<1>6. /\ ListStep /\ ListType' /\ next'[left[t]].to = q /\ ~ next'[left[t]].mark
  BY <1>0, <1>5, SkipStep
<1>7. Linked' = Linked /\ Allocated' = Allocated
  BY <1>0 DEF Linked, Allocated
<1>8. Local(t)'
  <2>1. op[t] # "none"
    BY <1>3 DEF Updates
  <2> QED BY <1>0, <1>2, <1>3, <1>4, <1>7, <2>1 DEF Local, FindPC
<1>9. Witnessed(t)'
  <2> SUFFICES ASSUME key[t] < nkey'[q] PROVE FALSE \in seen'[t]
    BY <1>2 DEF Witnessed
  <2>1. Shape'
    BY <1>6, LocalTypes, StepShape
  <2>2. InList(left[t])'
    <3>1. PICK n : n = left[t] /\ n = left'[t]
      BY <1>2
    <3>2. n \in Linked' /\ ~ next'[n].mark
      BY <3>1, <1>3, <1>6, <1>7
    <3>3. InList(n)'
      BY <3>2, <2>1 DEF Shape, LiveReachable, InList, Linked
    <3> QED BY <3>1, <3>3 DEF InList
  <2>3. key[t] \notin Present'
    <3>1. PICK n, k : n = left[t] /\ k = key[t] /\ n = left'[t]
      BY <1>2
    <3>2. n \in Linked' /\ InList(n)' /\ nkey'[n] < k /\ k < nkey'[next'[n].to] /\ k \in Key
      BY <3>1, <2>2, <1>0, <1>2, <1>3, <1>6, <1>7, LocalTypes DEF InList
    <3> QED BY <3>1, <3>2, <2>1, <1>6, ShapeFactsNext DEF Gaps
  <2>4. pc[t] \in {"find"} \cup FindPC
    BY <1>0 DEF FindPC
  <2> QED BY <2>3, <2>4, <1>0, FindSees
<1>10. pc[t] \in {"find"} \cup FindPC /\ "findRight" \in {"find"} \cup FindPC
  BY <1>0 DEF FindPC
<1> QED BY <1>0, <1>1, <1>4, <1>6, <1>8, <1>9, <1>10, LocalTypes, FindMoves, Zenon

LEMMA FindEndsIInv ==
    ASSUME IInv, NEW t \in Thread, FindEnds(t), Observe, UNCHANGED calls
    PROVE  IInv'
<1> DEFINE n == right[t]
           here == nkey[n] = key[t]
<1>0. /\ pc[t] = "findRight" /\ UNCHANGED <<got, closed>> /\ UNCHANGED list /\ op' = op
      /\ ~ next[n].mark /\ nkey[n] >= key[t]
  BY DEF FindEnds, Goto, Respond, call
<1>1. /\ op[t] \in Updates /\ left[t] \in Linked /\ nkey[left[t]] < key[t] /\ n \in Allocated \cup {TailId}
      /\ key[t] < nkey[n] => FALSE \in seen[t]
  BY <1>0, LocalTypes DEF ThreadInv, Local, FindPC, Witnessed
<1>2. /\ seen[t] \subseteq seen'[t] /\ (key[t] \in Present => TRUE \in seen[t])
  <2>1. pc[t] \in {"find"} \cup FindPC
    BY <1>0 DEF FindPC
  <2> QED BY <2>1, <1>0, FindSees, Zenon
<1>3. here => n \in Allocated /\ TRUE \in seen[t]
  <2>1. here => n \in Allocated
    BY <1>1, NodeKeys
  <2>2. here => key[t] \in Present
    BY <2>1, <1>0 DEF Present
  <2> QED BY <2>1, <2>2, <1>2, Zenon
<1>4. ~ here => key[t] < nkey[n]
  BY <1>0, <1>1, NodeKeys
<1>5. \/ /\ (op[t] = "insert" /\ ~ here) \/ (op[t] = "remove" /\ here)
         /\ Goto(t, "findRight", IF here THEN "load" ELSE "link")
         /\ UNCHANGED <<result, op, key, left, right, word>>
      \/ /\ op[t] = "insertNone" \/ here = (op[t] = "insert")
         /\ Respond(t, "findRight", "no")
  BY DEF FindEnds, call
<1>6. CASE /\ (op[t] = "insert" /\ ~ here) \/ (op[t] = "remove" /\ here)
           /\ Goto(t, "findRight", IF here THEN "load" ELSE "link")
           /\ UNCHANGED <<result, op, key, left, right, word>>
  <2>1. PICK p : p = IF here THEN "load" ELSE "link"
    OBVIOUS
  <2>2. p \in {"load", "link"} /\ p \in FindPC
    BY <2>1 DEF FindPC
  <2>3. Assign(t, p, op[t], key[t], left[t], n, word[t], got[t], result[t])
    BY <1>6, <2>1, <1>0, Kept, Zenon DEF Goto, Assign
  <2>4. /\ pc'[t] = p /\ op'[t] = op[t] /\ key'[t] = key[t] /\ left'[t] = left[t] /\ right'[t] = n
    BY <2>3, Values
  <2>5. p = "load" => op[t] = "remove" /\ n \in Allocated /\ nkey[n] = key[t] /\ TRUE \in seen[t]
    BY <2>1, <1>6, <1>3
  <2>6. p = "link" => op[t] = "insert" /\ key[t] < nkey[n] /\ FALSE \in seen[t]
    BY <2>1, <1>6, <1>4, <1>1
  <2>7. Local(t)'
    <3>1. op[t] # "none"
      BY <1>1 DEF Updates
    <3> QED BY <1>0, <1>1, <2>2, <2>4, <2>5, <2>6, <3>1, ListSame DEF Local, FindPC
  <2>8. Witnessed(t)'
    BY <1>0, <1>2, <2>2, <2>4, <2>5, <2>6, ListSame DEF Witnessed
  <2>9. pc[t] \in {"find"} \cup FindPC /\ p \in {"find"} \cup FindPC
    BY <1>0, <2>2 DEF FindPC
  <2> QED BY <1>0, <2>3, <2>7, <2>8, <2>9, ListSame, LocalTypes, FindMoves, Zenon
<1>7. CASE /\ op[t] = "insertNone" \/ here = (op[t] = "insert")
           /\ Respond(t, "findRight", "no")
  <2>1. op[t] = "insert" => here
    BY <1>7
  <2>2. op[t] = "remove" => ~ here
    BY <1>7
  <2>3. result'[t] = "no" /\ op'[t] = op[t]
    BY <1>7, <1>0 DEF Respond, IInv, TypeOK
  <2>4. Justified(t)'
    <3>1. op[t] = "insert" => TRUE \in seen'[t]
      BY <2>1, <1>3, <1>2, Zenon
    <3>2. op[t] = "remove" => FALSE \in seen'[t]
      BY <2>2, <1>4, <1>1, <1>2, Zenon
    <3>3. op[t] # "search" /\ result'[t] # "yes"
      BY <1>1, <2>3 DEF Updates
    <3> QED BY <2>3, <3>1, <3>2, <3>3 DEF Justified
  <2>5. "no" \in Results
    BY DEF Results
  <2> QED BY <1>0, <1>1, <1>7, <2>4, <2>5, ListSame, Responds, Zenon
<1> QED BY <1>5, <1>6, <1>7

-----------------------------------------------------------------------------
(* insert *)

LEMMA InsertIInv ==
    ASSUME IInv, NEW t \in Thread, Insert(t), Observe, UNCHANGED calls
    PROVE  IInv'
<1> DEFINE l == left[t]
           r == right[t]
           k == key[t]
<1>0. /\ pc[t] = "link" /\ UNCHANGED <<got, closed, op>> /\ next[l] = Clean(r)
      /\ next' = [next EXCEPT ![fresh] = Clean(r), ![l].to = fresh]
      /\ nkey' = [nkey EXCEPT ![fresh] = k] /\ fresh' = fresh + 1
      /\ Respond(t, "link", "yes")
  BY DEF Insert, Link, Respond, Goto
<1>1. /\ op[t] = "insert" /\ l \in Linked /\ nkey[l] < k /\ r \in Allocated \cup {TailId}
      /\ k < nkey[r] /\ FALSE \in seen[t]
  BY <1>0, LocalTypes DEF ThreadInv, Local, FindPC, Witnessed
<1>2. /\ IsFiniteSet(Inserting) /\ t \in Inserting /\ Cardinality(Inserting) \in Nat
      /\ Cardinality(Inserting \ {t}) = Cardinality(Inserting) - 1
      /\ Cardinality(Inserting \ {t}) \in Nat
  <2>1. IsFiniteSet(Inserting)
    BY BoundsAssumption, FS_Subset DEF Inserting
  <2>2. t \in Inserting
    BY <1>0, <1>1 DEF Inserting
  <2> QED BY <2>1, <2>2, FS_RemoveElement, FS_CardinalityType
<1>3. fresh \in Nat /\ MaxNode \in Nat /\ fresh <= MaxNode
  BY <1>2, Typed, BoundsAssumption, SMT DEF IInv, Room, ListType
<1>4. fresh \in NodeId /\ fresh \notin Node /\ l \in NodeId /\ r \in NodeId /\ fresh # l /\ l \in Node
  BY <1>1, <1>3, NodeFacts, NodeKeys, LocalTypes DEF ListType
<1>5. Clean(r) \in Word /\ Clean(r).to = r /\ ~ Clean(r).mark /\ ~ Clean(r).freeze
  BY <1>4 DEF Clean, Word
<1>6. /\ next' \in [NodeId -> Word] /\ next'[fresh] = Clean(r)
      /\ next'[l] = [next[l] EXCEPT !.to = fresh]
      /\ \A m \in NodeId : m # fresh /\ m # l => next'[m] = next[m]
  <2>1. next \in [NodeId -> Word]
    BY LocalTypes DEF ListType
  <2>2. [next[l] EXCEPT !.to = fresh] \in Word
    <3>1. next[l] \in Word
      BY <2>1, <1>4
    <3> QED BY <3>1, <1>4 DEF Word
  <2>3. next' = [[next EXCEPT ![fresh] = Clean(r)] EXCEPT ![l] = [next[l] EXCEPT !.to = fresh]]
    BY <1>0, <1>4, <2>1
  <2>4. [next EXCEPT ![fresh] = Clean(r)] \in [NodeId -> Word]
    BY <2>1, <1>5, Zenon
  <2>5. next' \in [NodeId -> Word]
    BY <2>2, <2>3, <2>4, Zenon
  <2> QED BY <2>1, <2>3, <2>4, <2>5, <1>4, Zenon
<1>7. /\ nkey' \in [NodeId -> 0 .. NKeys + 1] /\ nkey'[fresh] = k
      /\ \A m \in NodeId : m # fresh => nkey'[m] = nkey[m]
  <2>1. nkey \in [NodeId -> 0 .. NKeys + 1] /\ k \in 0 .. NKeys + 1
    BY LocalTypes, NodeKeys DEF ListType
  <2> QED BY <2>1, <1>0, <1>4, Zenon
<1>8. ListType'
  <2>1. fresh + 1 \in 1 .. MaxNode + 1
    BY <1>3, Typed DEF ListType
  <2> QED BY <2>1, <1>0, <1>6, <1>7 DEF ListType
<1>9. Linking(l, r, k)
  <2>1. next'[l].to = fresh /\ ~ next'[l].mark /\ ~ next'[l].freeze
    BY <1>0, <1>6 DEF Clean
  <2>2. \A m \in Node : m \in NodeId /\ m # fresh
    BY <1>4, NodeKeys
  <2>3. next[l].to = r /\ ~ next[l].mark /\ ~ next[l].freeze
    BY <1>0 DEF Clean
  <2>4. k \in Key
    BY LocalTypes
  <2> QED BY <2>1, <2>2, <2>3, <2>4, <1>0, <1>1, <1>3, <1>5, <1>6, <1>7, <1>4 DEF Linking
<1>10. ListStep
  BY <1>9 DEF ListStep
<1>11. Justified(t)'
  <2>1. k \in Present'
    <3>1. fresh \in Allocated' /\ ~ next'[fresh].mark
      BY <1>0, <1>3, <1>5, <1>6, Typed DEF Allocated, ListType
    <3> QED BY <3>1, <1>7 DEF Present
  <2>2. TRUE \in seen'[t] /\ FALSE \in seen'[t]
    <3>1. pc[t] \in {"find"} \cup FindPC
      BY <1>0 DEF FindPC
    <3> QED BY <3>1, <2>1, <1>0, <1>1, FindSees, Zenon
  <2>3. result'[t] = "yes" /\ op'[t] = "insert"
    BY <1>0, <1>1 DEF Respond, IInv, TypeOK
  <2>4. BOOLEAN \subseteq seen'[t]
    BY <2>2, Zenon
  <2> QED BY <2>2, <2>3, <2>4 DEF Justified
<1>12. Room'
  <2>1. Inserting' \subseteq Inserting \ {t}
    BY <1>0 DEF Inserting, Respond, Goto, IInv, TypeOK
  <2>2. IsFiniteSet(Inserting \ {t})
    BY <1>2, FS_Subset
  <2>3. Cardinality(Inserting') <= Cardinality(Inserting) - 1 /\ Cardinality(Inserting') \in Nat
    BY <2>1, <2>2, <1>2, FS_Subset, FS_CardinalityType
  <2> QED BY <2>3, <1>0, <1>2, <1>3, SMT DEF IInv, Room
<1>13. op[t] \in Updates \cup {"search"} /\ "yes" \in Results
  BY <1>1 DEF Updates, Results
<1> QED BY <1>0, <1>8, <1>10, <1>11, <1>12, <1>13, Responds, Zenon

-----------------------------------------------------------------------------
(* remove *)

LEMMA RemoveLoadIInv ==
    ASSUME IInv, NEW t \in Thread, RemoveLoad(t), Observe, UNCHANGED calls
    PROVE  IInv'
<1> DEFINE n == right[t]
           w == next[n]
<1>0. pc[t] = "load" /\ UNCHANGED closed /\ UNCHANGED list /\ op' = op
  BY DEF RemoveLoad, Goto, call
<1>1. PICK p : p = IF w.mark THEN "unlink" ELSE "mark"
  OBVIOUS
<1>2. Assign(t, p, op[t], key[t], left[t], n, w, got[t], result[t])
  BY <1>1, Kept, Zenon DEF RemoveLoad, Goto, Assign, call
<1>3. /\ pc'[t] = p /\ op'[t] = op[t] /\ key'[t] = key[t] /\ left'[t] = left[t] /\ right'[t] = n
      /\ word'[t] = w
  BY <1>2, Values
<1>4. /\ op[t] = "remove" /\ left[t] \in Linked /\ nkey[left[t]] < key[t]
      /\ n \in Allocated /\ nkey[n] = key[t]
      /\ TRUE \in seen[t] /\ (next[n].mark => FALSE \in seen[t])
  BY <1>0, LocalTypes DEF ThreadInv, Local, FindPC, Witnessed
<1>5. /\ p \in {"unlink", "mark"} /\ (p = "unlink" => w.mark) /\ (p = "mark" => ~ w.mark)
  BY <1>1
<1>6. Local(t)'
  BY <1>0, <1>3, <1>4, <1>5, ListSame DEF Local, FindPC, Updates
<1>7. pc[t] \in {"find"} \cup FindPC /\ p \in {"find"} \cup FindPC
  BY <1>0, <1>5 DEF FindPC
<1>8. Witnessed(t)'
  <2>1. seen[t] \subseteq seen'[t]
    BY <1>0, <1>7, FindSees
  <2>2. TRUE \in seen'[t] /\ (next[n].mark => FALSE \in seen'[t])
    BY <2>1, <1>4, Zenon
  <2> QED BY <2>2, <1>0, <1>3, <1>5, ListSame, Zenon DEF Witnessed
<1>9. w \in Word
  BY LocalTypes DEF ListType
<1> QED BY <1>0, <1>2, <1>6, <1>7, <1>8, <1>9, ListSame, LocalTypes, FindMoves, Zenon

LEMMA RemoveMarkIInv ==
    ASSUME IInv, NEW t \in Thread, RemoveMark(t), Observe, UNCHANGED calls
    PROVE  IInv'
<1> DEFINE n == right[t]
           w == word[t]
<1>0. /\ pc[t] = "mark" /\ UNCHANGED <<nkey, fresh, op, closed>>
      /\ next[n] = w /\ next' = [next EXCEPT ![n] = [w EXCEPT !.mark = TRUE]]
  BY DEF RemoveMark, CAS, Goto, call
<1>1. Assign(t, "unlink", op[t], key[t], left[t], n, w, got[t], result[t])
  BY Kept, Zenon DEF RemoveMark, Goto, Assign, call, locals
<1>2. /\ pc'[t] = "unlink" /\ op'[t] = op[t] /\ key'[t] = key[t] /\ left'[t] = left[t] /\ right'[t] = n
      /\ word'[t] = w
  BY <1>1, Values
<1>3. /\ op[t] = "remove" /\ left[t] \in Linked /\ nkey[left[t]] < key[t] /\ ~ w.mark
      /\ n \in Allocated /\ nkey[n] = key[t] /\ TRUE \in seen[t]
  BY <1>0, LocalTypes DEF ThreadInv, Local, FindPC, Witnessed
<1>4. n \in NodeId /\ Node \subseteq NodeId /\ n \in Node /\ w \in Word /\ ListType
  BY <1>3, LocalTypes, NodeKeys
<1>5. /\ [w EXCEPT !.mark = TRUE] \in Word /\ [w EXCEPT !.mark = TRUE].to = w.to
      /\ [w EXCEPT !.mark = TRUE].mark /\ [w EXCEPT !.mark = TRUE].freeze = w.freeze
  BY <1>4 DEF Word
<1>6. /\ next' \in [NodeId -> Word] /\ next'[n] = [w EXCEPT !.mark = TRUE]
      /\ \A m \in NodeId : m # n => next'[m] = next[m]
  <2>1. next \in [NodeId -> Word]
    BY <1>4 DEF ListType
  <2> QED BY <2>1, <1>0, <1>4, <1>5, Zenon
<1>7. Marking(n)
  BY <1>0, <1>3, <1>4, <1>5, <1>6 DEF Marking, Elsewhere
<1>8. ListStep /\ ListType' /\ Allocated' = Allocated /\ Linked' = Linked
  BY <1>0, <1>4, <1>6, <1>7 DEF ListStep, ListType, Allocated, Linked
<1>9. Local(t)'
  BY <1>0, <1>2, <1>3, <1>5, <1>6, <1>8 DEF Local, FindPC, Updates
<1>10. pc[t] \in {"find"} \cup FindPC /\ "unlink" \in {"find"} \cup FindPC
  BY <1>0 DEF FindPC
<1>11. Witnessed(t)'
  <2>1. key[t] \notin Present'
    BY <1>0, <1>3, <1>5, <1>6, <1>8, LocalTypes, NewlyMarked
  <2>2. TRUE \in seen'[t] /\ FALSE \in seen'[t]
    BY <2>1, <1>0, <1>3, <1>10, FindSees, Zenon
  <2> QED BY <2>2, <1>2, Zenon DEF Witnessed
<1> QED BY <1>0, <1>1, <1>4, <1>8, <1>9, <1>10, <1>11, LocalTypes, FindMoves, Zenon

LEMMA RemoveUnlinkIInv ==
    ASSUME IInv, NEW t \in Thread, RemoveUnlink(t), Observe, UNCHANGED calls
    PROVE  IInv'
<1> DEFINE w == [word[t] EXCEPT !.mark = FALSE]
<1>0. /\ pc[t] = "unlink" /\ UNCHANGED <<nkey, fresh, got, op, closed>>
      /\ Respond(t, "unlink", "yes")
      /\ CAS(left[t], Clean(right[t]), w) \/ UNCHANGED next
  BY DEF RemoveUnlink, Respond, Goto
<1>1. w \in Word /\ w.to = word[t].to /\ ~ w.mark
  BY LocalTypes DEF Word
<1>2. ListStep /\ ListType'
  <2>1. CASE UNCHANGED next
    BY <2>1, <1>0, ListSame DEF list
  <2>2. CASE CAS(left[t], Clean(right[t]), w)
    BY <2>2, <1>0, <1>1, SkipStep
  <2> QED BY <1>0, <2>1, <2>2
<1>3. /\ op[t] = "remove" /\ TRUE \in seen[t] /\ FALSE \in seen[t]
  BY <1>0, LocalTypes DEF ThreadInv, Local, FindPC, Witnessed
<1>4. Justified(t)'
  <2>1. seen[t] \subseteq seen'[t]
    <3>1. pc[t] \in {"find"} \cup FindPC
      BY <1>0 DEF FindPC
    <3> QED BY <3>1, <1>0, FindSees
  <2>2. BOOLEAN \subseteq seen'[t]
    BY <2>1, <1>3, Zenon
  <2>3. result'[t] = "yes" /\ op'[t] = "remove"
    BY <1>0, <1>3 DEF Respond, IInv, TypeOK
  <2> QED BY <2>2, <2>3 DEF Justified
<1>5. op[t] \in Updates \cup {"search"} /\ "yes" \in Results
  BY <1>3 DEF Updates, Results
<1> QED BY <1>0, <1>2, <1>4, <1>5, Responds, Zenon

-----------------------------------------------------------------------------
(* search *)

LEMMA SearchNextIInv ==
    ASSUME IInv, NEW t \in Thread, SearchNext(t), Observe, UNCHANGED calls
    PROVE  IInv'
<1> DEFINE n == left[t]
           q == next[n].to
<1>0. /\ pc[t] = "search" /\ UNCHANGED <<closed, op>> /\ UNCHANGED list /\ nkey[n] < key[t]
  BY DEF SearchNext, Goto, call
<1>1. Assign(t, "search", op[t], key[t], q, right[t], word[t], got[t], result[t])
  BY Kept, Zenon DEF SearchNext, Goto, Assign, call
<1>2. /\ pc'[t] = "search" /\ op'[t] = op[t] /\ key'[t] = key[t] /\ left'[t] = q
      /\ \A u \in Thread : u # t => Same(u)
  BY <1>1, Values
<1>3. op[t] = "search" /\ n \in Node
  BY <1>0, LocalTypes DEF ThreadInv, Local
<1>4. n \in Linked /\ q \in Node /\ q \in NodeId
  <2>1. n # TailId
    BY <1>0, NodeKeys
  <2> QED BY <2>1, <1>3, NodeKeys DEF Node
<1>5. op'[t] \in Updates \cup {"search"} /\ pc[t] # "return" /\ pc[t] # "idle"
  BY <1>0, <1>2, <1>3
<1>6. Local(t)'
  BY <1>0, <1>2, <1>3, <1>4, ListSame DEF Local, FindPC
<1>7. seen[t] \subseteq seen'[t]
  BY <1>5, Observes
<1>8. Observed(t)'
  <2>1. /\ key[t] \in Present' => TRUE \in seen'[t]
        /\ key[t] \notin Present' => FALSE \in seen'[t]
    BY <1>5, Observes, Zenon
  <2> QED BY <2>1, <1>2, Zenon DEF Observed
<1>9. Searching(t)'
  <2>1. PICK W \in SUBSET Linked : n \in W \cup {TailId} /\ Searched(W, key[t], seen[t])
    BY <1>0, LocalTypes DEF ThreadInv, Searching
  <2>2. n \in W /\ q \in W \cup {TailId}
    BY <2>1, <1>4, NodeKeys DEF Searched, Onward
  <2>3. key[t] < nkey[q] => FALSE \in seen'[t]
    BY <2>1, <2>2, <1>0, <1>7 DEF Searched
  <2>4. W \in SUBSET Linked' /\ Searched(W, key[t], seen[t])'
    BY <2>1, <1>0, <1>2, <1>7, ListSame DEF Searched, Onward
  <2> QED BY <2>2, <2>3, <2>4, <1>0, <1>2, ListSame DEF Searching
<1>10. Witnessed(t)' /\ Collecting(t)' /\ Justified(t)'
  BY <1>2 DEF Witnessed, Collecting, Justified
<1>11. ThreadInv(t)'
  BY <1>6, <1>8, <1>9, <1>10 DEF ThreadInv
<1>12. Room'
  BY <1>0, <1>2, <1>3, RoomStays DEF list
<1>13. "search" \in PC /\ calls' \in 0 .. MaxCalls
  BY DEF PC, IInv, TypeOK
<1> QED BY <1>0, <1>1, <1>4, <1>11, <1>12, <1>13, ListSame, LocalTypes, StepSuffices, Zenon

LEMMA SearchEndsIInv ==
    ASSUME IInv, NEW t \in Thread, SearchEnds(t), Observe, UNCHANGED calls
    PROVE  IInv'
<1> DEFINE n == left[t]
           found == nkey[n] = key[t] /\ ~ next[n].mark
<1>0. /\ pc[t] = "search" /\ UNCHANGED <<got, closed, op>> /\ UNCHANGED list /\ nkey[n] >= key[t]
      /\ Respond(t, "search", IF found THEN "yes" ELSE "no")
  BY DEF SearchEnds, SearchEndsWith, Respond, Goto
<1>1. PICK res : res = IF found THEN "yes" ELSE "no"
  OBVIOUS
<1>2. res \in {"yes", "no"} /\ (res = "yes" => found) /\ (res = "no" => ~ found)
  BY <1>1
<1>3. op[t] = "search" /\ n \in Node
  BY <1>0, LocalTypes DEF ThreadInv, Local
<1>4. op'[t] = "search" /\ result'[t] = res /\ Respond(t, "search", res)
  BY <1>0, <1>1, <1>3 DEF Respond, IInv, TypeOK
<1>5. seen[t] \subseteq seen'[t]
  <2>1. op'[t] \in Updates \cup {"search"} /\ pc[t] # "return"
    BY <1>0, <1>4
  <2> QED BY <2>1, Observes
<1>6. found => TRUE \in seen'[t]
  <2> SUFFICES ASSUME found PROVE TRUE \in seen'[t]
    OBVIOUS
  <2>1. n \in Allocated
    BY <1>3, NodeKeys DEF Node, Linked
  <2>2. key[t] \in Present
    BY <2>1 DEF Present
  <2>3. TRUE \in seen[t]
    BY <2>2, <1>0, <1>3, LocalTypes, Zenon DEF ThreadInv, Observed
  <2> QED BY <2>3, <1>5, Zenon
<1>7. ~ found => FALSE \in seen'[t]
  <2> SUFFICES ASSUME ~ found PROVE FALSE \in seen[t]
    BY <1>5, Zenon
  <2>1. CASE nkey[n] # key[t]
    <3>1. key[t] < nkey[n]
      BY <2>1, <1>0, <1>3, NodeKeys
    <3> QED BY <3>1, <1>0, LocalTypes DEF ThreadInv, Searching
  <2>2. CASE nkey[n] = key[t] /\ next[n].mark
    <3>1. PICK W \in SUBSET Linked : n \in W \cup {TailId} /\ Searched(W, key[t], seen[t])
      BY <1>0, LocalTypes DEF ThreadInv, Searching
    <3>2. n \in W
      BY <2>2, <3>1, NodeKeys
    <3> QED BY <2>2, <3>1, <3>2 DEF Searched
  <2> QED BY <2>1, <2>2
<1>8. Justified(t)'
  <2>1. res = "yes" => {TRUE} \subseteq seen'[t]
    BY <1>2, <1>6, Zenon
  <2>2. res = "no" => FALSE \in seen'[t]
    BY <1>2, <1>7, Zenon
  <2> QED BY <2>1, <2>2, <1>4 DEF Justified
<1>9. op[t] \in Updates \cup {"search"} /\ res \in Results
  BY <1>2, <1>3 DEF Results
<1> QED BY <1>0, <1>4, <1>8, <1>9, ListSame, Responds, Zenon

-----------------------------------------------------------------------------
(* collect *)

LEMMA CollectFreezeIInv ==
    ASSUME IInv, NEW t \in Thread, CollectFreeze(t), Observe, UNCHANGED calls
    PROVE  IInv'
<1> DEFINE n == left[t]
<1>0. /\ pc[t] = "collect" /\ UNCHANGED <<nkey, fresh, op, closed, left, got>> /\ n # TailId
      /\ next' = [next EXCEPT ![n] = [next[n] EXCEPT !.freeze = TRUE]]
  BY DEF CollectFreeze, Goto, call, locals
<1>1. Assign(t, "collectRead", op[t], key[t], n, right[t], word[t], got[t], result[t])
  BY Kept, Zenon DEF CollectFreeze, Goto, Assign, call, locals
<1>2. /\ pc'[t] = "collectRead" /\ op'[t] = op[t] /\ left'[t] = n /\ got'[t] = got[t]
      /\ \A u \in Thread : u # t => Same(u)
  BY <1>1, Values
<1>3. op[t] = "collect" /\ n \in Linked /\ n \in Node /\ n \in NodeId
  BY <1>0, LocalTypes, NodeKeys DEF ThreadInv, Local, Node
<1>4. next[n] \in Word /\ Node \subseteq NodeId /\ ListType
  BY <1>3, LocalTypes, NodeKeys DEF ListType
<1>5. /\ [next[n] EXCEPT !.freeze = TRUE] \in Word /\ [next[n] EXCEPT !.freeze = TRUE].freeze
      /\ [next[n] EXCEPT !.freeze = TRUE].to = next[n].to
      /\ [next[n] EXCEPT !.freeze = TRUE].mark = next[n].mark
  BY <1>4 DEF Word
<1>6. /\ next' \in [NodeId -> Word] /\ next'[n] = [next[n] EXCEPT !.freeze = TRUE]
      /\ \A m \in NodeId : m # n => next'[m] = next[m]
  <2>1. next \in [NodeId -> Word]
    BY <1>4 DEF ListType
  <2> QED BY <2>1, <1>0, <1>3, <1>5, Zenon
<1>7. Freezing(n)
  BY <1>0, <1>3, <1>4, <1>5, <1>6 DEF Freezing, Elsewhere
<1>8. ListStep /\ ListType' /\ Node' = Node
  BY <1>0, <1>4, <1>6, <1>7 DEF ListStep, ListType, Allocated, Linked, Node
<1>9. Local(t)'
  BY <1>0, <1>2, <1>3, <1>5, <1>6, <1>8 DEF Local, FindPC
<1>10. Collecting(t)'
  <2>1. PICK P \in SUBSET Linked : FrozenPath(P, n) /\ Pushed(P, n, got[t])
    BY <1>0, LocalTypes DEF ThreadInv, Collecting
  <2>2. PICK m, g : m = left[t] /\ g = got[t] /\ m = left'[t] /\ g = got'[t]
    BY <1>2
  <2>3. P \in SUBSET Linked' /\ FrozenPath(P, m)' /\ Pushed(P, m, g)'
    BY <2>1, <2>2, <1>3, <1>8, LocalTypes, PathStays, PushedStays
  <2>4. FrozenPath(P, left[t])' /\ Pushed(P, left[t], got[t])'
    BY <2>2, <2>3 DEF FrozenPath, Pushed, Ascending, RangeOf
  <2> QED BY <2>3, <2>4, <1>2 DEF Collecting
<1>11. Observed(t)' /\ Witnessed(t)' /\ Searching(t)' /\ Justified(t)'
  BY <1>2, <1>3 DEF Observed, Witnessed, Searching, Justified, Updates
<1>12. ThreadInv(t)'
  BY <1>9, <1>10, <1>11 DEF ThreadInv
<1>13. Room'
  BY <1>0, <1>2, <1>3, RoomStays
<1>14. "collectRead" \in PC /\ calls' \in 0 .. MaxCalls
  BY DEF PC, IInv, TypeOK
<1> QED BY <1>0, <1>1, <1>8, <1>12, <1>13, <1>14, LocalTypes, StepSuffices, Zenon

\* The sequence of the nodes pushed, with one more.
LEMMA PushOne ==
    ASSUME NEW g \in Seq(NodeId), NEW q \in NodeId
    PROVE  /\ Append(g, q) \in Seq(NodeId) /\ RangeOf(Append(g, q)) = RangeOf(g) \cup {q}
           /\ Ascending(g) /\ (\A p \in RangeOf(g) : nkey[p] < nkey[q]) => Ascending(Append(g, q))
<1>1. /\ Append(g, q) \in Seq(NodeId) /\ Len(Append(g, q)) = Len(g) + 1 /\ Len(g) \in Nat
      /\ DOMAIN g = 1 .. Len(g) /\ DOMAIN Append(g, q) = 1 .. Len(g) + 1
      /\ Append(g, q)[Len(g) + 1] = q /\ \A i \in 1 .. Len(g) : Append(g, q)[i] = g[i]
  OBVIOUS
<1>2. RangeOf(Append(g, q)) = RangeOf(g) \cup {q}
  <2>1. ASSUME NEW x \in RangeOf(Append(g, q)) PROVE x \in RangeOf(g) \cup {q}
    <3>1. PICK i \in 1 .. Len(g) + 1 : x = Append(g, q)[i]
      BY <1>1 DEF RangeOf
    <3>2. i \in 1 .. Len(g) \/ i = Len(g) + 1
      BY <1>1
    <3> QED BY <3>1, <3>2, <1>1 DEF RangeOf
  <2>2. ASSUME NEW x \in RangeOf(g) PROVE x \in RangeOf(Append(g, q))
    <3>1. PICK i \in 1 .. Len(g) : x = g[i]
      BY <1>1 DEF RangeOf
    <3>2. i \in 1 .. Len(g) + 1
      BY <1>1
    <3> QED BY <3>1, <3>2, <1>1 DEF RangeOf
  <2>3. q \in RangeOf(Append(g, q))
    <3>1. Len(g) + 1 \in 1 .. Len(g) + 1
      BY <1>1
    <3> QED BY <3>1, <1>1 DEF RangeOf
  <2> QED BY <2>1, <2>2, <2>3
<1>3. ASSUME Ascending(g), \A p \in RangeOf(g) : nkey[p] < nkey[q],
             NEW i \in 1 .. Len(g) + 1, NEW j \in 1 .. Len(g) + 1, i < j
      PROVE  nkey[Append(g, q)[i]] < nkey[Append(g, q)[j]]
  <2>1. i \in 1 .. Len(g) /\ (j \in 1 .. Len(g) \/ j = Len(g) + 1)
    BY <1>1, <1>3
  <2>2. g[i] \in RangeOf(g)
    BY <2>1, <1>1 DEF RangeOf
  <2> QED BY <2>1, <2>2, <1>1, <1>3 DEF Ascending
<1> QED BY <1>1, <1>2, <1>3 DEF Ascending

LEMMA CollectReadIInv ==
    ASSUME IInv, NEW t \in Thread, CollectRead(t), Observe, UNCHANGED calls
    PROVE  IInv'
<1> DEFINE n == left[t]
           w == next[n]
           q == w.to
<1>0. /\ pc[t] = "collectRead" /\ UNCHANGED <<op, closed>> /\ UNCHANGED list
  BY DEF CollectRead, Goto, call
<1>1. PICK g : g = IF w.mark THEN got[t] ELSE Append(got[t], q)
  OBVIOUS
<1>2. Assign(t, "collect", op[t], key[t], q, right[t], word[t], g, result[t])
  BY <1>1, Kept, Zenon DEF CollectRead, Goto, Assign, call
<1>3. /\ pc'[t] = "collect" /\ op'[t] = op[t] /\ left'[t] = q /\ got'[t] = g
      /\ \A u \in Thread : u # t => Same(u)
  BY <1>2, Values
<1>4. op[t] = "collect" /\ n \in Linked /\ w.freeze
  BY <1>0, LocalTypes, NodeKeys DEF ThreadInv, Local, Node
<1>5. q \in Allocated \cup {TailId} /\ q \in Node /\ q \in NodeId /\ nkey[n] < nkey[q] /\ q # HeadId
  BY <1>4, LocalTypes, NodeKeys, NodeFacts DEF Shape, Sorted, ListType
<1>6. g \in Seq(NodeId)
  BY <1>1, <1>5, LocalTypes, PushOne
<1>7. Local(t)'
  BY <1>0, <1>3, <1>4, <1>5, ListSame DEF Local, FindPC
<1>8. Collecting(t)'
  <2>1. PICK P \in SUBSET Linked : FrozenPath(P, n) /\ Pushed(P, n, got[t])
    BY <1>0, LocalTypes DEF ThreadInv, Collecting
  <2>2. PICK Q : Q = P \cup {n}
    OBVIOUS
  <2>3. Q \in SUBSET Linked /\ FrozenPath(Q, q)
    BY <2>1, <2>2, <1>4 DEF FrozenPath
  <2>4. Pushed(Q, q, g)
    <3> SUFFICES ASSUME Unmarked
                 PROVE  /\ RangeOf(g) \cup {HeadId} = Q \cup {q} /\ Ascending(g) /\ HeadId \notin RangeOf(g)
                        /\ \A p \in RangeOf(g) : nkey[p] <= nkey[q]
      BY DEF Pushed
    <3>1. g = Append(got[t], q)
      BY <1>1, <1>4, NodeKeys DEF Unmarked, Linked
    <3>2. /\ RangeOf(got[t]) \cup {HeadId} = Q /\ Ascending(got[t]) /\ HeadId \notin RangeOf(got[t])
          /\ \A p \in RangeOf(got[t]) : nkey[p] <= nkey[n] /\ p \in Node
      BY <2>1, <2>2, <1>4, NodeKeys DEF Pushed
    <3>3. \A p \in RangeOf(got[t]) : nkey[p] < nkey[q]
      BY <3>2, <1>4, <1>5, NodeKeys
    <3>4. RangeOf(g) = RangeOf(got[t]) \cup {q} /\ Ascending(g)
      BY <3>1, <3>2, <3>3, <1>5, LocalTypes, PushOne
    <3>5. \A p \in RangeOf(g) : nkey[p] <= nkey[q]
      BY <3>2, <3>3, <3>4, <1>5, NodeKeys
    <3> QED BY <3>2, <3>4, <3>5, <1>5
  <2>5. Q \in SUBSET Linked' /\ FrozenPath(Q, left[t])' /\ Pushed(Q, left[t], got[t])'
    BY <2>3, <2>4, <1>0, <1>3, ListSame DEF FrozenPath, Pushed, Ascending, RangeOf, Unmarked
  <2> QED BY <2>5, <1>3 DEF Collecting
<1>9. Observed(t)' /\ Witnessed(t)' /\ Searching(t)' /\ Justified(t)'
  BY <1>3, <1>4 DEF Observed, Witnessed, Searching, Justified, Updates
<1>10. ThreadInv(t)'
  BY <1>7, <1>8, <1>9 DEF ThreadInv
<1>11. Room'
  BY <1>0, <1>3, <1>4, RoomStays DEF list
<1>12. "collect" \in PC /\ calls' \in 0 .. MaxCalls
  BY DEF PC, IInv, TypeOK
<1> QED BY <1>0, <1>2, <1>5, <1>6, <1>10, <1>11, <1>12, ListSame, LocalTypes, StepSuffices, Zenon

\* pop_back of an ascending sequence that contains the tail removes the tail.
LEMMA PopTail ==
    ASSUME ListType, Shape, NEW g \in Seq(NodeId), Ascending(g), TailId \in RangeOf(g)
    PROVE  /\ RangeOf(SubSeq(g, 1, Len(g) - 1)) = RangeOf(g) \ {TailId}
           /\ Ascending(SubSeq(g, 1, Len(g) - 1))
<1> DEFINE h == SubSeq(g, 1, Len(g) - 1)
<1> HIDE DEF h
<1>0. /\ \A i \in DOMAIN g : g[i] \in NodeId /\ nkey[g[i]] \in Nat /\ nkey[g[i]] <= NKeys + 1
      /\ nkey[TailId] = NKeys + 1 /\ NKeys \in Nat /\ DOMAIN g = 1 .. Len(g) /\ Len(g) \in Nat
  BY BoundsAssumption DEF ListType, Shape, Pointers
<1>1. PICK i \in 1 .. Len(g) : g[i] = TailId
  BY <1>0 DEF RangeOf
<1>2. i = Len(g)
  <2> SUFFICES ASSUME i # Len(g) PROVE FALSE
    OBVIOUS
  <2>0. Len(g) \in Nat
    BY <1>0
  <2>1. i \in Nat /\ i + 1 \in 1 .. Len(g) /\ i < i + 1
    BY <2>0, <1>1
  <2>2. nkey[g[i]] < nkey[g[i + 1]]
    BY <2>1, <1>0, <1>1 DEF Ascending
  <2>3. nkey[g[i]] = NKeys + 1 /\ nkey[g[i + 1]] \in Nat /\ nkey[g[i + 1]] <= NKeys + 1 /\ NKeys \in Nat
    BY <2>1, <1>0, <1>1
  <2> QED BY <2>2, <2>3
<1>3. \A j \in 1 .. Len(g) - 1 : g[j] # TailId
  <2> SUFFICES ASSUME NEW j \in 1 .. Len(g) - 1 PROVE g[j] # TailId
    OBVIOUS
  <2>1. nkey[g[j]] < nkey[g[i]]
    BY <1>0, <1>2 DEF Ascending
  <2> QED BY <2>1, <1>0, <1>1
<1>4. /\ DOMAIN h = 1 .. Len(g) - 1 /\ \A j \in 1 .. Len(g) - 1 : h[j] = g[j]
  BY <1>0, <1>1 DEF h
<1>5. RangeOf(h) = RangeOf(g) \ {TailId}
  <2>1. ASSUME NEW x \in RangeOf(h) PROVE x \in RangeOf(g) \ {TailId}
    <3>1. PICK j \in 1 .. Len(g) - 1 : x = g[j]
      BY <1>4 DEF RangeOf
    <3>2. j \in DOMAIN g
      BY <1>0
    <3> QED BY <3>1, <3>2, <1>3 DEF RangeOf
  <2>2. ASSUME NEW x \in RangeOf(g), x # TailId PROVE x \in RangeOf(h)
    <3>1. PICK j \in 1 .. Len(g) : x = g[j]
      BY <1>0 DEF RangeOf
    <3>2. j \in 1 .. Len(g) - 1
      BY <3>1, <2>2, <1>0, <1>1, <1>2
    <3> QED BY <3>1, <3>2, <1>4 DEF RangeOf
  <2> QED BY <2>1, <2>2
<1>6. Ascending(h)
  <2>1. \A j \in 1 .. Len(g) - 1 : j \in DOMAIN g
    BY <1>0
  <2> QED BY <2>1, <1>4 DEF Ascending
<1> QED BY <1>5, <1>6 DEF h

LEMMA CollectEndIInv ==
    ASSUME IInv, NEW t \in Thread, CollectEnd(t), Observe, UNCHANGED calls
    PROVE  IInv'
<1>0. /\ pc[t] = "collect" /\ UNCHANGED op /\ UNCHANGED list /\ closed' = TRUE /\ left[t] = TailId
      /\ Respond(t, "collect", "yes")
      /\ got' = [got EXCEPT ![t] = SubSeq(got[t], 1, Len(got[t]) - 1)]
  BY DEF CollectEnd, Respond, Goto
<1>1. PICK g : g = SubSeq(got[t], 1, Len(got[t]) - 1)
  OBVIOUS
<1>2. g \in Seq(NodeId)
  <2>1. got[t] \in Seq(NodeId)
    BY LocalTypes
  <2> QED BY <2>1, <1>1
<1>3. Assign(t, "return", op[t], 1, HeadId, HeadId, Clean(TailId), g, "yes")
  BY <1>0, <1>1, Kept, Zenon DEF Respond, Goto, Assign
<1>4. /\ pc'[t] = "return" /\ op'[t] = op[t] /\ left'[t] = HeadId /\ got'[t] = g
      /\ \A u \in Thread : u # t => Same(u)
  BY <1>3, Values
<1>5. op[t] = "collect"
  BY <1>0, LocalTypes DEF ThreadInv, Local
<1>6. PICK P \in SUBSET Linked : FrozenPath(P, TailId) /\ Pushed(P, TailId, got[t])
  BY <1>0, LocalTypes DEF ThreadInv, Collecting
<1>7. P \in SUBSET Linked' /\ FrozenPath(P, TailId)'
  BY <1>0, <1>6, ListSame DEF FrozenPath
<1>8. Unmarked => RangeOf(g) = Allocated /\ Ascending(g)
  <2> SUFFICES ASSUME Unmarked PROVE RangeOf(g) = Allocated /\ Ascending(g)
    OBVIOUS
  <2>1. HeadId \in P /\ \A p \in P : next[p].to \in P \cup {TailId}
    BY <1>6, NodeKeys DEF FrozenPath
  <2>2. \A m \in Linked : InList(m)
    BY LocalTypes, UnmarkedInList, NodeKeys DEF Unmarked, Linked
  <2>3. P = Linked
    BY <2>1, <2>2 DEF InList
  <2>4. /\ RangeOf(got[t]) \cup {HeadId} = Linked \cup {TailId} /\ Ascending(got[t])
        /\ HeadId \notin RangeOf(got[t])
    BY <2>3, <1>6 DEF Pushed
  <2>5. TailId \in RangeOf(got[t])
    BY <2>4, NodeKeys
  <2>6. RangeOf(g) = RangeOf(got[t]) \ {TailId} /\ Ascending(g)
    BY <2>4, <2>5, <1>1, LocalTypes, PopTail
  <2>7. TailId \notin Allocated /\ HeadId \notin Allocated
    BY NodeFacts, LocalTypes DEF ListType
  <2> QED BY <2>4, <2>6, <2>7 DEF Linked
<1>9. Collecting(t)'
  BY <1>0, <1>4, <1>5, <1>8, ListSame DEF Collecting, Unmarked, Ascending, RangeOf
<1>10. Local(t)'
  BY <1>4, <1>5 DEF Local, FindPC
<1>11. Observed(t)' /\ Witnessed(t)' /\ Searching(t)' /\ Justified(t)'
  BY <1>4, <1>5 DEF Observed, Witnessed, Searching, Justified, Updates
<1>12. ThreadInv(t)'
  BY <1>9, <1>10, <1>11 DEF ThreadInv
<1>13. Room'
  BY <1>0, <1>4, <1>5, RoomStays DEF list
<1>14. /\ "return" \in PC /\ 1 \in Key /\ HeadId \in NodeId /\ TailId \in NodeId
       /\ calls' \in 0 .. MaxCalls /\ "yes" \in Results
  BY NodeFacts, LocalTypes DEF PC, ListType, IInv, TypeOK, Results
<1>15. Clean(TailId) \in Word
  BY <1>14 DEF Clean, Word
<1> QED BY <1>0, <1>2, <1>3, <1>7, <1>12, <1>13, <1>14, <1>15, ListSame, LocalTypes, StepSuffices, Zenon

-----------------------------------------------------------------------------
(* Calls and returns *)

LEMMA ReturnIInv ==
    ASSUME IInv, NEW t \in Thread, Return(t), Observe, UNCHANGED calls
    PROVE  IInv'
<1>0. pc[t] = "return" /\ UNCHANGED closed /\ UNCHANGED list
  BY DEF Return, Goto
<1>1. Assign(t, "idle", "none", key[t], left[t], right[t], word[t], <<>>, "none")
  BY Kept, Zenon DEF Return, Goto, Assign
<1>2. /\ pc'[t] = "idle" /\ op'[t] = "none" /\ left'[t] = left[t] /\ got'[t] = <<>>
      /\ \A u \in Thread : u # t => Same(u)
  BY <1>1, Values
<1>3. left[t] = HeadId
  BY <1>0, LocalTypes DEF ThreadInv, Local
<1>4. Local(t)'
  BY <1>2, <1>3 DEF Local, FindPC
<1>5. Observed(t)' /\ Witnessed(t)' /\ Searching(t)' /\ Collecting(t)' /\ Justified(t)'
  BY <1>2 DEF Observed, Witnessed, Searching, Collecting, Justified, Updates
<1>6. ThreadInv(t)'
  BY <1>4, <1>5 DEF ThreadInv
<1>7. Room'
  BY <1>0, <1>2, RoomStays DEF list
<1>8. /\ "idle" \in PC /\ "none" \in Ops /\ "none" \in Results /\ <<>> \in Seq(NodeId)
      /\ calls' \in 0 .. MaxCalls
  BY DEF PC, Ops, Results, IInv, TypeOK
<1> QED BY <1>0, <1>1, <1>6, <1>7, <1>8, ListSame, LocalTypes, StepSuffices, Zenon

\* The nodes of the list, at the time of a call of search.
LEMMA SearchBegins ==
    ASSUME ListType, Shape, NEW k \in Key, NEW s, k \notin Present => FALSE \in s
    PROVE  \E W \in SUBSET Linked : HeadId \in W /\ Searched(W, k, s)
<1>1. PICK W : W = {m \in Linked : InList(m)}
  OBVIOUS
<1>2. W \in SUBSET Linked /\ HeadId \in W
  BY <1>1 DEF InList, Linked
<1>3. Onward(W)
  <2> SUFFICES ASSUME NEW p \in W, next[p].to # TailId PROVE next[p].to \in W
    BY <1>2 DEF Onward
  <2>1. next[p].to \in Linked
    BY <1>1 DEF Shape, Pointers, Linked
  <2>2. InList(next[p].to)
    BY <1>1 DEF InList
  <2> QED BY <2>1, <2>2, <1>1
<1>4. ASSUME NEW w \in W
      PROVE  /\ nkey[w] < k /\ k < nkey[next[w].to] => FALSE \in s
             /\ nkey[w] = k /\ next[w].mark => FALSE \in s
  BY <1>1, Gap, MarkedAbsent
<1> QED BY <1>2, <1>3, <1>4 DEF Searched

LEMMA CallIInv ==
    ASSUME IInv, NEW t \in Thread, NEW o \in Updates \cup {"search", "collect"}, NEW k \in Key,
           Call(t, o, k), Observe
    PROVE  IInv'
<1>0. /\ pc[t] = "idle" /\ UNCHANGED closed /\ UNCHANGED list /\ calls < MaxCalls /\ calls' = calls + 1
      /\ o = "insert" => fresh + Cardinality({u \in Thread : op[u] = "insert"}) <= MaxNode
  BY DEF Call, Goto
<1>1. PICK p : p = IF o \in Updates THEN "find" ELSE o
  OBVIOUS
<1>2. Assign(t, p, o, k, left[t], right[t], word[t], got[t], result[t])
  BY <1>1, Kept, Zenon DEF Call, Goto, Assign, locals
<1>3. /\ pc'[t] = p /\ op'[t] = o /\ key'[t] = k /\ left'[t] = left[t] /\ got'[t] = got[t]
      /\ \A u \in Thread : u # t => Same(u)
  BY <1>2, Values
<1>4. left[t] = HeadId /\ got[t] = <<>>
  BY <1>0, LocalTypes DEF ThreadInv, Local
<1>5. /\ p \in {"find", "search", "collect"} /\ (p = "find" => o \in Updates)
      /\ (p = "search" => o = "search") /\ (p = "collect" => o = "collect")
      /\ o # "none" /\ (o = "collect" => p = "collect")
  BY <1>1 DEF Updates
<1>6. Local(t)'
  BY <1>0, <1>3, <1>4, <1>5, ListSame, NodeKeys DEF Local, FindPC
<1>7. o # "collect" => /\ k \in Present' => TRUE \in seen'[t]
                       /\ k \notin Present' => FALSE \in seen'[t]
  <2> SUFFICES ASSUME o # "collect"
               PROVE  /\ k \in Present' => TRUE \in seen'[t]
                      /\ k \notin Present' => FALSE \in seen'[t]
    OBVIOUS
  <2>1. op'[t] \in Updates \cup {"search"} /\ pc[t] # "return"
    BY <1>0, <1>3
  <2> QED BY <2>1, <1>0, <1>3, Observes, Zenon
<1>8. Observed(t)'
  <2>1. op'[t] \in Updates \cup {"search"} => o # "collect"
    BY <1>3 DEF Updates
  <2> QED BY <2>1, <1>3, <1>7, Zenon DEF Observed
<1>9. Searching(t)'
  <2> SUFFICES ASSUME p = "search"
               PROVE  /\ \E W \in SUBSET Linked' :
                            left'[t] \in W \cup {TailId} /\ Searched(W, key[t], seen[t])'
                      /\ ~ (k < nkey'[left'[t]])
    BY <1>3 DEF Searching
  <2>1. PICK s : s = seen'[t]
    OBVIOUS
  <2>2. k \notin Present => FALSE \in s
    BY <2>1, <1>0, <1>5, <1>7, ListSame
  <2>3. PICK W \in SUBSET Linked : HeadId \in W /\ Searched(W, k, s)
    BY <2>2, LocalTypes, SearchBegins
  <2>4. W \in SUBSET Linked' /\ Searched(W, key[t], seen[t])'
    BY <2>1, <2>3, <1>0, <1>3, ListSame DEF Searched, Onward
  <2>5. ~ (k < nkey'[HeadId])
    BY <1>0, ListSame, NodeKeys, Keys, LocalTypes
  <2> QED BY <2>3, <2>4, <2>5, <1>3, <1>4
<1>10. Collecting(t)'
  <2> SUFFICES ASSUME p = "collect"
               PROVE  \E P \in SUBSET Linked' : FrozenPath(P, left[t])' /\ Pushed(P, left[t], got[t])'
    BY <1>3, <1>5 DEF Collecting
  <2>1. RangeOf(<<>>) = {} /\ Ascending(<<>>)'
    BY DEF RangeOf, Ascending
  <2>2. FrozenPath({}, left[t])' /\ Pushed({}, left[t], got[t])'
    BY <2>1, <1>3, <1>4 DEF FrozenPath, Pushed, RangeOf
  <2> QED BY <2>2
<1>11. Witnessed(t)' /\ Justified(t)'
  BY <1>3, <1>5 DEF Witnessed, Justified
<1>12. ThreadInv(t)'
  BY <1>6, <1>8, <1>9, <1>10, <1>11 DEF ThreadInv
<1>13. Room'
  <2>1. CASE o # "insert"
    BY <2>1, <1>0, <1>3, RoomStays DEF list
  <2>2. CASE o = "insert"
    <3> DEFINE I == {u \in Thread : op[u] = "insert"}
    <3>1. IsFiniteSet(I) /\ IsFiniteSet(I \cup {t})
      BY BoundsAssumption, FS_Subset, FS_AddElement
    <3>2. Cardinality(I) \in Nat /\ Cardinality(I \cup {t}) <= Cardinality(I) + 1
          /\ Cardinality(I \cup {t}) \in Nat
      BY <3>1, FS_AddElement, FS_CardinalityType
    <3>3. Inserting' \subseteq I \cup {t}
      BY <1>3 DEF Inserting, Same
    <3>4. Cardinality(Inserting') <= Cardinality(I \cup {t}) /\ Cardinality(Inserting') \in Nat
      BY <3>1, <3>3, FS_Subset, FS_CardinalityType
    <3>5. fresh \in Nat /\ MaxNode \in Nat /\ fresh' = fresh /\ fresh + Cardinality(I) <= MaxNode
      BY <2>2, <1>0, Typed, BoundsAssumption DEF ListType, list
    <3> HIDE DEF I
    <3> QED BY <3>2, <3>4, <3>5, SMT DEF Room
  <2> QED BY <2>1, <2>2
<1>14. p \in PC /\ o \in Ops /\ calls' \in 0 .. MaxCalls
  <2>1. p \in PC /\ o \in Ops
    BY <1>5 DEF PC, Ops
  <2>2. calls \in 0 .. MaxCalls
    BY DEF IInv, TypeOK
  <2> QED BY <2>1, <2>2, <1>0, BoundsAssumption
<1> QED BY <1>0, <1>2, <1>12, <1>13, <1>14, ListSame, LocalTypes, StepSuffices, Zenon

-----------------------------------------------------------------------------
(* The initial state *)

\* Every node of the list that split_root filled can be reached from the head.
LEMMA InitReachable ==
    ASSUME Init, NEW n \in Allocated
    PROVE  InList(n)
<1> SUFFICES ASSUME NEW S \in SUBSET Linked, HeadId \in S,
                    \A p \in S : next[p].to \in S \cup {TailId}, n \notin S
             PROVE  FALSE
  BY DEF InList
<1> DEFINE Missed == {m \in Allocated : m \notin S}
<1>0. fresh \in 1 .. MaxStart + 1 /\ MaxStart \in Nat /\ MaxNode \in Nat /\ MaxStart <= MaxNode
  BY BoundsAssumption DEF Init
<1>1. Missed \subseteq Nat /\ Missed # {}
  BY <1>0 DEF Allocated
<1>2. PICK m \in Missed : \A x \in Missed : m <= x
  BY <1>1, Least
<1>3. m \in 1 .. fresh - 1 /\ m \notin S
  BY DEF Allocated
<1>4. m - 1 \in S
  <2>1. CASE m = 1
    BY <2>1 DEF HeadId
  <2>2. CASE m # 1
    <3>1. m - 1 \in Allocated /\ ~ (m <= m - 1)
      BY <2>2, <1>0, <1>3 DEF Allocated
    <3> QED BY <3>1, <1>2
  <2> QED BY <2>1, <2>2
<1>5. next[m - 1].to = m /\ m # TailId
  <2>1. m - 1 \in NodeId /\ m - 1 # TailId /\ (m - 1) + 1 < fresh /\ m # TailId
    BY <1>0, <1>3 DEF NodeId, TailId
  <2>2. next[m - 1] = Clean((m - 1) + 1)
    BY <2>1 DEF Init
  <2>3. (m - 1) + 1 = m
    BY <1>3, <1>0
  <2> QED BY <2>1, <2>2, <2>3 DEF Clean
<1> QED BY <1>3, <1>4, <1>5

LEMMA InitIInv == Init => IInv
<1> SUFFICES ASSUME Init PROVE IInv
  OBVIOUS
<1>0. /\ fresh \in 1 .. MaxStart + 1 /\ MaxStart \in Nat /\ MaxNode \in Nat /\ MaxStart <= MaxNode
      /\ NKeys \in Nat /\ MaxCalls \in Nat /\ fresh \in 1 .. MaxNode + 1
  BY BoundsAssumption DEF Init
<1>1. HeadId \in NodeId /\ TailId \in NodeId /\ 1 \in Key /\ HeadId # TailId
  BY <1>0, NodeFacts
<1>2. \A n \in NodeId \cup {Null} : Clean(n) \in Word
  BY DEF Clean, Word
<1>3. ListType
  <2>1. \A n \in NodeId : (IF n = TailId THEN Null ELSE IF n + 1 < fresh THEN n + 1 ELSE TailId)
                            \in NodeId \cup {Null}
    BY <1>0 DEF NodeId, TailId
  <2>2. next \in [NodeId -> Word]
    BY <1>2, <2>1 DEF Init
  <2> QED BY <1>0, <2>2 DEF Init, ListType
<1>4. TypeOK /\ got \in [Thread -> Seq(NodeId)]
  <2>1. /\ pc \in [Thread -> PC] /\ op \in [Thread -> Updates \cup {"search", "collect", "none"}]
        /\ result \in [Thread -> {"none", "frozen", "yes", "no"}]
    BY DEF Init, PC
  <2>2. /\ key \in [Thread -> Key] /\ left \in [Thread -> NodeId] /\ right \in [Thread -> NodeId]
        /\ word \in [Thread -> Word]
    BY <1>1, <1>2 DEF Init
  <2>3. got \in [Thread -> Seq(NodeId)] /\ \A t \in Thread : got[t] \in Seq(NodeId)
    BY DEF Init
  <2>4. calls \in 0 .. MaxCalls
    BY <1>0, SMT DEF Init
  <2>6. closed \in BOOLEAN
    BY Zenon DEF Init
  <2>5. seen \in [Thread -> SUBSET BOOLEAN]
    BY Zenon DEF Init
  <2> QED BY <1>3, <2>1, <2>2, <2>3, <2>4, <2>5, <2>6 DEF TypeOK, ListType
<1>5. Shape
  <2>1. \A n \in NodeId : ~ next[n].mark
    BY DEF Init, Clean
  <2>2. next[TailId] = Clean(Null)
    BY <1>1 DEF Init
  <2>3. ASSUME NEW n \in Linked
        PROVE  next[n].to \in Allocated \cup {TailId} /\ nkey[n] < nkey[next[n].to]
    <3>1. n \in NodeId /\ n # TailId /\ n \in 0 .. fresh - 1
      BY <1>0 DEF Linked, Allocated, HeadId, NodeId, TailId
    <3>2. next[n].to = IF n + 1 < fresh THEN n + 1 ELSE TailId
      BY <3>1 DEF Init, Clean
    <3>3. CASE n + 1 < fresh
      <4>1. n + 1 \in Allocated /\ (n + 1) - 1 = n
        BY <3>1, <3>3, <1>0 DEF Allocated
      <4>2. nkey[n] < nkey[n + 1]
        BY <4>1 DEF Init
      <4> QED BY <3>2, <3>3, <4>1, <4>2
    <3>4. CASE ~ (n + 1 < fresh)
      <4>1. nkey[TailId] = NKeys + 1 /\ (nkey[n] = 0 \/ nkey[n] \in Key)
        BY DEF Init, Linked
      <4> QED BY <3>2, <3>4, <4>1, <1>0 DEF Key
    <3> QED BY <3>3, <3>4
  <2>4. Pointers
    BY <2>1, <2>2, <2>3, <1>1 DEF Pointers, Init
  <2>5. Sorted
    BY <2>3 DEF Sorted
  <2>6. LiveReachable
    BY InitReachable DEF LiveReachable
  <2> QED BY <2>4, <2>5, <2>6 DEF Shape
<1>6. Room
  <2>1. Inserting = {}
    BY DEF Init, Inserting
  <2> QED BY <2>1, <1>0, FS_EmptySet DEF Room
<1>7. Closed
  BY DEF Init, Closed
<1>8. ASSUME NEW t \in Thread PROVE ThreadInv(t)
  <2>1. pc[t] = "idle" /\ op[t] = "none" /\ left[t] = HeadId /\ got[t] = <<>>
    BY DEF Init
  <2>2. Local(t)
    BY <2>1 DEF Local, FindPC
  <2> QED BY <2>1, <2>2 DEF ThreadInv, Observed, Witnessed, Searching, Collecting, Justified, Updates
<1> QED BY <1>4, <1>5, <1>6, <1>7, <1>8 DEF IInv

-----------------------------------------------------------------------------
(* Every step, and the theorems *)

LEMMA StutterIInv ==
    ASSUME IInv, UNCHANGED vars
    PROVE  IInv'
<1>0. /\ UNCHANGED <<nkey, next, fresh, pc, op, key, left, right, word, got, result, calls, seen, closed>>
      /\ UNCHANGED list
  BY DEF vars, list, call, locals
<1>1. TypeOK' /\ got' \in [Thread -> Seq(NodeId)]
  BY <1>0 DEF IInv, TypeOK
<1>2. Shape'
  BY <1>0, ListSame, StepShape, LocalTypes DEF IInv, Shape, Pointers, Sorted, LiveReachable, InList
<1>3. Room'
  BY <1>0 DEF IInv, Room, Inserting
<1>4. Closed'
  BY <1>0, ListSame DEF IInv, Closed, FrozenPath
<1>5. ASSUME NEW t \in Thread PROVE ThreadInv(t)'
  <2>1. ThreadInv(t)
    BY DEF IInv
  <2>2. Local(t)'
    BY <2>1, <1>0, ListSame DEF ThreadInv, Local
  <2>5. Observed(t)'
    BY <2>1, <1>0, ListSame, Zenon DEF ThreadInv, Observed
  <2>6. Witnessed(t)'
    BY <2>1, <1>0, ListSame, Zenon DEF ThreadInv, Witnessed
  <2>7. Justified(t)'
    BY <2>1, <1>0, ListSame, Zenon DEF ThreadInv, Justified
  <2>3. Searching(t)'
    BY <2>1, <1>0, ListSame DEF ThreadInv, Searching, Searched, Onward
  <2>4. Collecting(t)'
    BY <2>1, <1>0, ListSame DEF ThreadInv, Collecting, FrozenPath, Pushed, Unmarked, RangeOf, Ascending
  <2> QED BY <2>2, <2>3, <2>4, <2>5, <2>6, <2>7 DEF ThreadInv
<1> QED BY <1>1, <1>2, <1>3, <1>4, <1>5 DEF IInv

LEMMA NextIInv == IInv /\ [Next]_vars => IInv'
<1> SUFFICES ASSUME IInv, [Next]_vars PROVE IInv'
  OBVIOUS
<1>1. CASE UNCHANGED vars
  BY <1>1, StutterIInv
<1>2. CASE Next
  <2>1. PICK t \in Thread : \/ Step(t) /\ UNCHANGED calls
                            \/ \E o \in Updates \cup {"search", "collect"}, k \in Key : Call(t, o, k)
    BY <1>2 DEF Next
  <2>2. Observe
    BY <1>2 DEF Next
  <2>3. CASE Step(t) /\ UNCHANGED calls
    BY <2>2, <2>3, FindFromHeadIInv, FindFrozenIInv, FindMarkedIInv, FindUnlinkIInv, RetryIInv,
       FindAdvanceIInv, FindEndsIInv, InsertIInv, RemoveLoadIInv, RemoveMarkIInv, RemoveUnlinkIInv,
       SearchNextIInv, SearchEndsIInv, CollectFreezeIInv, CollectReadIInv, CollectEndIInv,
       ReturnIInv DEF Step
  <2> QED BY <2>1, <2>2, <2>3, CallIInv
<1> QED BY <1>1, <1>2

LEMMA Invariance == Spec => []IInv
BY InitIInv, NextIInv, PTL DEF Spec

\* The variables keep their types: no nullptr is dereferenced.
THEOREM TypeCorrect == Spec => []TypeOK
<1>1. IInv => TypeOK
  BY DEF IInv
<1> QED BY <1>1, Invariance, PTL

\* Keys ascend along the pointers of the list, of removed nodes too.
THEOREM Ordered == Spec => []Sorted
<1>1. IInv => Sorted
  BY DEF IInv, Shape
<1> QED BY <1>1, Invariance, PTL

\* No unlinking and no freezing loses a key that was inserted and not removed.
THEOREM Reachable == Spec => []LiveReachable
<1>1. IInv => LiveReachable
  BY DEF IInv, Shape
<1> QED BY <1>1, Invariance, PTL

\* What insert, remove and search return was so at a moment of the call.
THEOREM Linearizes == Spec => []ResultsWitnessed
<1>1. IInv => ResultsWitnessed
  <2> SUFFICES ASSUME IInv, NEW t \in Thread PROVE Justified(t)
    BY DEF ResultsWitnessed, Justified
  <2> QED BY LocalTypes DEF ThreadInv
<1> QED BY <1>1, Invariance, PTL

\* collect returns the keys of the list, in their order, if none has been removed.
THEOREM Collects == Spec => []CollectExact
<1>1. IInv => CollectExact
  <2> SUFFICES ASSUME IInv, NEW t \in Thread, pc[t] = "return", op[t] = "collect",
                      \A n \in Allocated : ~ next[n].mark
               PROVE  /\ {got[t][i] : i \in DOMAIN got[t]} = Allocated
                      /\ \A i \in 1 .. Len(got[t]) - 1 : nkey[got[t][i]] < nkey[got[t][i + 1]]
    BY DEF CollectExact
  <2>1. RangeOf(got[t]) = Allocated /\ Ascending(got[t])
    BY LocalTypes DEF ThreadInv, Collecting, Unmarked
  <2>2. got[t] \in Seq(NodeId)
    BY LocalTypes
  <2>3. \A i \in 1 .. Len(got[t]) - 1 : i \in DOMAIN got[t] /\ i + 1 \in DOMAIN got[t] /\ i < i + 1
    BY <2>2
  <2> QED BY <2>1, <2>3 DEF RangeOf, Ascending
<1> QED BY <1>1, Invariance, PTL

\* Once a collect has returned the list takes no more keys.
THEOREM Late == Spec => NothingInsertedLate
<1>1. ASSUME IInv, [Next]_vars PROVE [closed => fresh' = fresh]_vars
  <2>1. CASE UNCHANGED vars
    BY <2>1
  <2>2. ASSUME Next, closed PROVE fresh' = fresh
    <3>1. PICK t \in Thread : \/ Step(t) /\ UNCHANGED calls
                              \/ \E o \in Updates \cup {"search", "collect"}, k \in Key : Call(t, o, k)
      BY <2>2 DEF Next
    <3>2. ~ Insert(t)
      <4> SUFFICES ASSUME Insert(t) PROVE FALSE
        OBVIOUS
      <4>1. PICK P \in SUBSET Linked : FrozenPath(P, TailId)
        BY <1>1, <2>2, LocalTypes DEF IInv, Closed
      <4>2. HeadId \in P /\ \A p \in P : next[p].to \in P \cup {TailId}
        BY <1>1, <4>1, NodeKeys DEF FrozenPath
      <4>3. left[t] \in Linked /\ ~ next[left[t]].mark /\ ~ next[left[t]].freeze
        <5>1. pc[t] = "link" /\ next[left[t]] = Clean(right[t])
          BY DEF Insert, Link, Respond, Goto
        <5> QED BY <1>1, <5>1, LocalTypes DEF IInv, ThreadInv, Local, FindPC, Clean
      <4>4. left[t] \in P
        BY <1>1, <4>2, <4>3, LocalTypes, UnmarkedInList DEF InList
      <4> QED BY <4>1, <4>3, <4>4 DEF FrozenPath
    <3> QED BY <3>1, <3>2 DEF Step, FindFromHead, FindFrozen, FindMarked, FindUnlink, FindRetry,
               FindAdvance, Advance, FindEnds, InsertRetry, RemoveLoad, RemoveMark, RemoveRetry,
               RemoveUnlink, SearchNext, SearchEnds, SearchEndsWith, CollectFreeze, CollectRead,
               CollectEnd, Return, Call, list
  <2> QED BY <1>1, <2>1, <2>2
<1> QED BY <1>1, Invariance, PTL DEF Spec, NothingInsertedLate

-----------------------------------------------------------------------------
(* The list implements a set that can be frozen *)

\* A call has an answer when it is about to return, notes nothing before and in
\* collect, and a pointer it has loaded is frozen only if the freezing has begun.
Answers(t) ==
    /\ pc[t] = "return" <=> result[t] # "none"
    /\ op[t] \in {"none", "collect"} => seen[t] = {}
    /\ word[t].freeze => Frozen

Answering == \A t \in Thread : Answers(t)

\* The marks of the nodes, and hence the set, stay.
SameMarks ==
    /\ UNCHANGED <<nkey, fresh>>
    /\ \A n \in Allocated : next'[n].mark <=> next[n].mark

LEMMA SameSet ==
    ASSUME SameMarks
    PROVE  Allocated' = Allocated /\ Linked' = Linked /\ Present' = Present /\ Dropped' = Dropped
BY DEF SameMarks, Allocated, Linked, Present, Dropped

\* What t notes is what a call of the set notes.
LEMMA SetObserves ==
    ASSUME IInv, Answering, Observe,
           \A u \in Thread : op[u] = "none" => op'[u] = "none" \/ Arg'[u] = key'[u]
    PROVE  Set!Observe
<1> DEFINE k(t) == IF pc[t] = "idle" THEN key'[t] ELSE key[t]
           f(t) == IF op'[t] \in {"none", "collect"} THEN {}
                     ELSE IF pc[t] = "return" THEN seen[t]
                     ELSE seen[t] \cup (IF k(t) \in Present' THEN {TRUE} ELSE {FALSE})
           m(t) == IF op[t] = "none" THEN Arg'[t] ELSE Arg[t]
           g(t) == IF op'[t] \in {"none", "collect"} THEN {}
                     ELSE IF result[t] # "none" THEN seen[t]
                     ELSE seen[t] \cup (IF m(t) \in Present' THEN {TRUE} ELSE {FALSE})
<1>1. seen' = [t \in Thread |-> f(t)]
  BY Zenon DEF Observe, Present, Allocated
<1>2. ASSUME NEW t \in Thread PROVE f(t) = g(t)
  <2>1. (pc[t] = "idle" <=> op[t] = "none") /\ (pc[t] = "return" <=> result[t] # "none")
    BY LocalTypes DEF ThreadInv, Local, Answering, Answers
  <2>2. op[t] # "none" /\ result[t] = "none" => Arg[t] = key[t]
    BY DEF Arg
  <2>3. op'[t] # "none" /\ result[t] = "none" => k(t) = m(t)
    BY <2>1, <2>2
  <2> HIDE DEF k, m
  <2>4. CASE op'[t] \in {"none", "collect"}
    BY <2>4, Zenon
  <2>5. CASE op'[t] \notin {"none", "collect"} /\ result[t] # "none"
    BY <2>1, <2>5, Zenon
  <2>6. CASE op'[t] \notin {"none", "collect"} /\ result[t] = "none"
    BY <2>1, <2>3, <2>6, Zenon
  <2> QED BY <2>4, <2>5, <2>6, Zenon
<1> HIDE DEF f
<1>3. seen' = [t \in Thread |-> g(t)]
  BY <1>1, <1>2, Zenon
<1> QED BY <1>3, Zenon DEF Set!Observe

\* A call under way has noted the present state of the set: it has nothing new to
\* note as long as the set stays.
LEMMA SeenSame ==
    ASSUME IInv, Answering, Observe, op' = op, key' = key, Present' = Present
    PROVE  seen' = seen
<1> DEFINE k(t) == IF pc[t] = "idle" THEN key'[t] ELSE key[t]
           f(t) == IF op'[t] \in {"none", "collect"} THEN {}
                     ELSE IF pc[t] = "return" THEN seen[t]
                     ELSE seen[t] \cup (IF k(t) \in Present' THEN {TRUE} ELSE {FALSE})
<1>1. seen' = [t \in Thread |-> f(t)]
  BY Zenon DEF Observe, Present, Allocated
<1>2. ASSUME NEW t \in Thread PROVE f(t) = seen[t]
  <2>1. CASE op'[t] \in {"none", "collect"}
    BY <2>1, Zenon DEF Answering, Answers
  <2>2. CASE op'[t] \notin {"none", "collect"} /\ pc[t] = "return"
    BY <2>2, Zenon
  <2>3. CASE op'[t] \notin {"none", "collect"} /\ pc[t] # "return"
    <3>1. op[t] \in Updates \cup {"search"}
      BY <2>3, LocalTypes DEF Ops
    <3>2. k(t) = key[t]
      OBVIOUS
    <3>3. (key[t] \in Present => TRUE \in seen[t]) /\ (key[t] \notin Present => FALSE \in seen[t])
      BY <2>3, <3>1, LocalTypes, Zenon DEF ThreadInv, Observed
    <3> HIDE DEF k
    <3>4. seen[t] \cup (IF k(t) \in Present' THEN {TRUE} ELSE {FALSE}) = seen[t]
      BY <3>2, <3>3, Zenon
    <3> QED BY <2>3, <3>4, Zenon
  <2> QED BY <2>1, <2>2, <2>3, Zenon
<1> HIDE DEF f
<1>3. seen' = [t \in Thread |-> seen[t]]
  BY <1>1, <1>2, Zenon
<1> QED BY <1>3, Zenon DEF IInv, TypeOK

\* A step between two effects.
LEMMA Quiet ==
    ASSUME IInv, Answering, Observe, SameMarks, UNCHANGED <<op, key, result, closed>>,
           closed \/ (Frozen' <=> Frozen),
           \A u \in Thread : result[u] # "none" => got'[u] = got[u]
    PROVE  UNCHANGED Set!vars
<1>1. Present' = Present /\ Dropped' = Dropped /\ nkey' = nkey
  BY SameSet DEF SameMarks
<1>2. ListState' = ListState
  BY Zenon DEF ListState
<1>3. Arg' = Arg
  BY DEF Arg
<1>4. Taken' = Taken
  BY <1>1 DEF Taken
<1>5. seen' = seen
  BY <1>1, SeenSame
<1> QED BY <1>1, <1>2, <1>3, <1>4, <1>5 DEF Set!vars, Set!set

\* The answer of an operation other than collect that leaves the set alone.
LEMMA Replies ==
    ASSUME IInv, Answering, Observe, SameMarks, UNCHANGED <<got, closed>>, Frozen' <=> Frozen,
           NEW t \in Thread, op[t] \in Updates \cup {"search"}, NEW from, from # "return",
           NEW res, res # "none", Respond(t, from, res)
    PROVE  /\ Set!Reply(t, op[t], res) /\ UNCHANGED <<Set!set, Taken>> /\ Set!Observe
           /\ Arg[t] = key[t]
<1>0. /\ pc[t] = from /\ result' = [result EXCEPT ![t] = res] /\ op' = op
      /\ key' = [key EXCEPT ![t] = 1] /\ op[t] \notin {"none", "collect"}
  BY DEF Respond, Goto, Updates
<1>1. /\ result[t] = "none" /\ result'[t] = res /\ key'[t] = 1
      /\ \A u \in Thread : u # t => result'[u] = result[u] /\ key'[u] = key[u]
  BY <1>0 DEF Answering, Answers, IInv, TypeOK
<1>2. Present' = Present /\ Dropped' = Dropped /\ nkey' = nkey
  BY SameSet DEF SameMarks
<1>3. ListState' = ListState
  BY Zenon DEF ListState
<1>4. Arg' = [Arg EXCEPT ![t] = 0] /\ Arg[t] = key[t]
  BY <1>0, <1>1 DEF Arg
<1>5. Taken' = Taken
  BY <1>0, <1>1, <1>2 DEF Taken
<1>6. Set!Observe
  BY <1>0, SetObserves
<1> QED BY <1>0, <1>1, <1>2, <1>3, <1>4, <1>5, <1>6 DEF Set!Reply, Set!set, Set!NoKey

\* The threads answer as they should after a step of t.
LEMMA AnswersStep ==
    ASSUME IInv, Answering, Observe, NEW t \in Thread, Frozen => Frozen',
           pc'[t] = "return" <=> result'[t] # "none", word'[t].freeze => Frozen',
           \A u \in Thread : u # t => pc'[u] = pc[u] /\ result'[u] = result[u] /\ word'[u] = word[u]
    PROVE  Answering'
<1> SUFFICES ASSUME NEW u \in Thread PROVE Answers(u)'
  BY DEF Answering
<1>1. Answers(u)
  BY DEF Answering
<1>2. op'[u] \in {"none", "collect"} => seen'[u] = {}
  BY Zenon DEF Observe
<1>3. (pc'[u] = "return" <=> result'[u] # "none") /\ (word'[u].freeze => Frozen')
  BY <1>1, Zenon DEF Answers
<1> QED BY <1>2, <1>3, Zenon DEF Answers

LEMMA Silent ==
    ASSUME IInv, Answering, Observe, NEW t \in Thread, NEW p, NEW q, p # "return", q # "return",
           Goto(t, p, q), UNCHANGED <<op, key, result, closed>>, SameMarks, Frozen' <=> Frozen,
           \A u \in Thread : u # t => got'[u] = got[u] /\ word'[u] = word[u],
           word'[t].freeze => Frozen
    PROVE  UNCHANGED Set!vars /\ Answering'
<1>1. /\ pc[t] = p /\ pc'[t] = q /\ \A u \in Thread : u # t => pc'[u] = pc[u]
  BY DEF Goto, IInv, TypeOK
<1>2. result[t] = "none"
  BY <1>1 DEF Answering, Answers
<1>3. \A u \in Thread : result[u] # "none" => got'[u] = got[u]
  BY <1>2
<1> QED BY <1>1, <1>2, <1>3, Quiet, AnswersStep, Zenon

LEMMA RespondAnswers ==
    ASSUME IInv, Answering, Observe, NEW t \in Thread, NEW from, NEW res, res # "none",
           Respond(t, from, res), Frozen => Frozen'
    PROVE  Answering'
<1>1. /\ pc'[t] = "return" /\ result'[t] = res /\ word'[t] = Clean(TailId)
      /\ \A u \in Thread : u # t => pc'[u] = pc[u] /\ result'[u] = result[u] /\ word'[u] = word[u]
  BY DEF Respond, Goto, IInv, TypeOK
<1>2. ~ word'[t].freeze
  BY <1>1 DEF Clean
<1> QED BY <1>1, <1>2, AnswersStep

\* A step that leaves the pointers alone, or replaces one whose bits are not set.
LEMMA SameList ==
    ASSUME UNCHANGED list
    PROVE  SameMarks /\ (Frozen' <=> Frozen)
BY DEF list, SameMarks, Frozen, Linked, Allocated

LEMMA SameBits ==
    ASSUME IInv, NEW l \in Linked, NEW n, NEW w, CAS(l, Clean(n), w), ~ w.mark, w.freeze => Frozen,
           UNCHANGED <<nkey, fresh>>
    PROVE  SameMarks /\ (Frozen' <=> Frozen)
<1>1. ~ next[l].mark /\ ~ next[l].freeze
  BY DEF CAS, Clean
<1>2. l \in NodeId /\ Linked \subseteq NodeId /\ Allocated \subseteq Linked /\ Linked' = Linked
  BY NodeFacts, Typed DEF ListType, Linked, Allocated
<1>3. next'[l] = w /\ \A m \in NodeId : m # l => next'[m] = next[m]
  BY <1>2, Typed DEF CAS, ListType
<1>4. SameMarks
  BY <1>1, <1>2, <1>3 DEF SameMarks
<1>5. Frozen => Frozen'
  BY <1>1, <1>2, <1>3 DEF Frozen
<1>6. Frozen' => Frozen
  BY <1>1, <1>2, <1>3 DEF Frozen
<1> QED BY <1>4, <1>5, <1>6

\* The steps of find, insert, remove and search between their effects.
LEMMA SilentSteps ==
    ASSUME IInv, Answering, Observe, NEW t \in Thread,
           \/ FindFromHead(t) \/ FindMarked(t) \/ FindRetry(t) \/ FindAdvance(t) \/ InsertRetry(t)
           \/ RemoveLoad(t) \/ RemoveRetry(t) \/ SearchNext(t) \/ CollectRead(t)
    PROVE  UNCHANGED Set!vars /\ Answering'
<1>1. /\ UNCHANGED list /\ UNCHANGED <<op, key, result, closed>>
      /\ \E p, q : p # "return" /\ q # "return" /\ Goto(t, p, q)
  <2>1. CASE RemoveLoad(t)
    BY <2>1, Zenon DEF RemoveLoad, call
  <2> QED BY <2>1 DEF FindFromHead, FindMarked, FindRetry, FindAdvance, Advance, InsertRetry,
             RemoveRetry, SearchNext, CollectRead, call
<1>2. \A u \in Thread : u # t => got'[u] = got[u] /\ word'[u] = word[u]
  BY DEF FindFromHead, FindMarked, FindRetry, FindAdvance, Advance, InsertRetry, RemoveLoad,
         RemoveRetry, SearchNext, CollectRead, locals, IInv, TypeOK
<1>3. word'[t].freeze => Frozen
  <2>1. CASE word' = word
    BY <2>1 DEF Answering, Answers
  <2>2. CASE FindMarked(t)
    BY <2>2 DEF FindMarked, IInv, TypeOK
  <2>3. CASE RemoveLoad(t)
    <3>1. word'[t] = next[right[t]] /\ pc[t] = "load"
      BY <2>3 DEF RemoveLoad, Goto, IInv, TypeOK
    <3>2. right[t] \in Linked
      BY <3>1, LocalTypes DEF ThreadInv, Local, Linked
    <3> QED BY <3>1, <3>2 DEF Frozen
  <2> QED BY <2>1, <2>2, <2>3 DEF FindFromHead, FindRetry, FindAdvance, Advance, InsertRetry,
             RemoveRetry, SearchNext, CollectRead, locals
<1> QED BY <1>1, <1>2, <1>3, SameList, Silent

LEMMA FindUnlinkMaps ==
    ASSUME IInv, Answering, Observe, NEW t \in Thread, FindUnlink(t)
    PROVE  UNCHANGED Set!vars /\ Answering'
<1>1. /\ CAS(left[t], Clean(right[t]), Clean(word[t].to)) /\ Goto(t, "findUnlink", "findRight")
      /\ UNCHANGED <<nkey, fresh, op, key, word, got, result, closed>>
  BY DEF FindUnlink, call
<1>2. left[t] \in Linked
  BY <1>1, LocalTypes DEF Goto, ThreadInv, Local, FindPC
<1>3. ~ Clean(word[t].to).mark /\ ~ Clean(word[t].to).freeze
  BY DEF Clean
<1>4. SameMarks /\ (Frozen' <=> Frozen)
  BY <1>1, <1>2, <1>3, SameBits
<1>5. word'[t].freeze => Frozen
  BY <1>1 DEF Answering, Answers
<1> QED BY <1>1, <1>4, <1>5, Silent

\* find meets a frozen pointer.
LEMMA FindFrozenMaps ==
    ASSUME IInv, Answering, Observe, NEW t \in Thread, FindFrozen(t)
    PROVE  Set!Refuse(t) /\ Set!Observe /\ Answering'
<1>1. PICK from \in {"find", "findRight"} : Respond(t, from, "frozen")
  BY DEF FindFrozen
<1>2. UNCHANGED list /\ UNCHANGED <<got, closed>>
  BY DEF FindFrozen
<1>3. pc[t] = from /\ op[t] \in Updates
  BY <1>1, LocalTypes DEF Respond, Goto, ThreadInv, Local, FindPC
<1>4. Frozen
  <2>1. CASE next[HeadId].freeze
    BY <2>1 DEF Frozen, Linked
  <2>2. CASE next[right[t]].freeze /\ pc[t] = "findRight"
    <3>1. right[t] \in Allocated \cup {TailId}
      BY <2>2, LocalTypes DEF ThreadInv, Local, FindPC
    <3>2. right[t] # TailId
      BY <2>2, NodeKeys DEF Clean
    <3> QED BY <2>2, <3>1, <3>2 DEF Frozen, Linked
  <2> QED BY <2>1, <2>2 DEF FindFrozen, Respond, Goto
<1>5. ListState # "open"
  BY <1>4 DEF ListState
<1>6. Set!Reply(t, op[t], "frozen") /\ UNCHANGED <<Set!set, Taken>> /\ Set!Observe
  BY <1>1, <1>2, <1>3, SameList, Replies
<1>7. Answering'
  BY <1>1, <1>2, SameList, RespondAnswers
<1> QED BY <1>3, <1>5, <1>6, <1>7 DEF Set!Refuse, Set!set, Set!Updates, Updates

\* An unmarked pointer that is not frozen is one that no collect has passed: none
\* has returned.
LEMMA NotClosed ==
    ASSUME IInv, NEW n \in Linked, ~ next[n].mark, ~ next[n].freeze
    PROVE  ~ closed /\ ListState # "closed"
<1> SUFFICES ASSUME closed PROVE FALSE
  BY DEF ListState
<1>0. ListType /\ Shape /\ Closed
  BY Typed DEF IInv
<1>1. PICK P \in SUBSET Linked : FrozenPath(P, TailId)
  BY <1>0 DEF Closed
<1>2. HeadId \in P /\ \A p \in P : next[p].to \in P \cup {TailId}
  BY <1>0, <1>1, NodeFacts DEF FrozenPath, ListType
<1>3. InList(n)
  BY <1>0, UnmarkedInList
<1>4. n \in P
  BY <1>2, <1>3 DEF InList
<1> QED BY <1>1, <1>4 DEF FrozenPath

\* find ends: the key is there, is not there, or the operation goes on.
LEMMA FindEndsMaps ==
    ASSUME IInv, Answering, Observe, NEW t \in Thread, FindEnds(t)
    PROVE  /\ UNCHANGED Set!vars \/ ((Set!Exists(t) \/ Set!Ignore(t) \/ Set!Absent(t)) /\ Set!Observe)
           /\ Answering'
<1> DEFINE n == right[t]
           here == nkey[n] = key[t]
<1>0. /\ pc[t] = "findRight" /\ UNCHANGED <<got, closed>> /\ UNCHANGED list
      /\ ~ next[n].mark /\ ~ next[n].freeze /\ nkey[n] >= key[t]
  BY DEF FindEnds, Goto, Respond, call
<1>1. /\ op[t] \in Updates /\ n \in Allocated \cup {TailId}
      /\ key[t] < nkey[n] => FALSE \in seen[t]
  BY <1>0, LocalTypes DEF ThreadInv, Local, FindPC, Witnessed
<1>2. here => n \in Linked /\ key[t] \in Present
  <2>1. here => n \in Allocated
    BY <1>1, NodeKeys
  <2> QED BY <2>1, <1>0 DEF Present, Linked
<1>3. ~ here => FALSE \in seen[t]
  <2>1. ~ here => key[t] < nkey[n]
    BY <1>0, <1>1, NodeKeys
  <2> QED BY <2>1, <1>1, Zenon
<1>4. SameMarks /\ (Frozen' <=> Frozen)
  BY <1>0, SameList
<1>5. CASE /\ Goto(t, "findRight", IF here THEN "load" ELSE "link")
           /\ UNCHANGED <<result, call, left, right, word>>
  <2>1. PICK p : p = IF here THEN "load" ELSE "link"
    OBVIOUS
  <2>2. p # "return" /\ Goto(t, "findRight", p)
    BY <1>5, <2>1
  <2>3. UNCHANGED <<op, key, result, closed>> /\ word' = word /\ got' = got
    BY <1>0, <1>5 DEF call
  <2>4. word'[t].freeze => Frozen
    BY <2>3 DEF Answering, Answers
  <2> QED BY <1>4, <2>2, <2>3, <2>4, Silent
<1>6. CASE /\ op[t] = "insertNone" \/ here = (op[t] = "insert")
           /\ Respond(t, "findRight", "no")
  <2>1. Set!Reply(t, op[t], "no") /\ UNCHANGED <<Set!set, Taken>> /\ Set!Observe /\ Arg[t] = key[t]
    BY <1>0, <1>1, <1>4, <1>6, Replies
  <2>2. Answering'
    BY <1>4, <1>6, RespondAnswers
  <2>3. CASE op[t] = "insertNone"
    BY <2>1, <2>2, <2>3 DEF Set!Ignore
  <2>4. CASE op[t] = "insert"
    <3>1. here
      BY <1>6, <2>4
    <3> QED BY <2>1, <2>2, <2>4, <3>1, <1>0, <1>2, NotClosed DEF Set!Exists
  <2>5. CASE op[t] = "remove"
    <3>1. ~ here
      BY <1>6, <2>5
    <3> QED BY <2>1, <2>2, <2>5, <3>1, <1>3 DEF Set!Absent
  <2> QED BY <1>1, <2>3, <2>4, <2>5 DEF Updates
<1> QED BY <1>5, <1>6 DEF FindEnds

\* The key of the node that insert links joins the set.
LEMMA InsertMaps ==
    ASSUME IInv, Answering, Observe, NEW t \in Thread, Insert(t)
    PROVE  Set!Link(t) /\ Set!Observe /\ Answering'
<1> DEFINE l == left[t]
           r == right[t]
           k == key[t]
<1>0. /\ pc[t] = "link" /\ UNCHANGED <<got, closed, op>> /\ next[l] = Clean(r)
      /\ next' = [next EXCEPT ![fresh] = Clean(r), ![l].to = fresh]
      /\ nkey' = [nkey EXCEPT ![fresh] = k] /\ fresh' = fresh + 1
      /\ Respond(t, "link", "yes")
  BY DEF Insert, Link, Respond, Goto
<1>1. /\ op[t] = "insert" /\ l \in Linked /\ nkey[l] < k /\ r \in Allocated \cup {TailId}
      /\ k < nkey[r]
  BY <1>0, LocalTypes DEF ThreadInv, Local, FindPC
<1>2. /\ ~ next[l].mark /\ ~ next[l].freeze /\ next[l].to = r
      /\ ~ Clean(r).mark /\ ~ Clean(r).freeze
  BY <1>0 DEF Clean
<1>3. fresh \in Nat /\ MaxNode \in Nat /\ fresh <= MaxNode
  <2>1. IsFiniteSet(Inserting) /\ Inserting # {}
    BY <1>0, <1>1, BoundsAssumption, FS_Subset DEF Inserting
  <2>2. Cardinality(Inserting) \in Nat /\ Cardinality(Inserting) # 0
    BY <2>1, FS_EmptySet, FS_CardinalityType
  <2> QED BY <2>2, Typed, BoundsAssumption, SMT DEF IInv, Room, ListType
<1>4. /\ fresh \in NodeId /\ fresh \notin Node /\ l \in NodeId /\ fresh # l
      /\ Linked \subseteq NodeId /\ Allocated \subseteq Linked /\ Linked \subseteq Node
      /\ Allocated' = Allocated \cup {fresh} /\ Linked' = Linked \cup {fresh}
  BY <1>0, <1>1, <1>3, NodeFacts, NodeKeys, OneMore, LocalTypes DEF ListType
<1>5. /\ next'[fresh] = Clean(r) /\ next'[l] = [next[l] EXCEPT !.to = fresh]
      /\ \A m \in NodeId : m # fresh /\ m # l => next'[m] = next[m]
  <2>1. next \in [NodeId -> Word]
    BY LocalTypes DEF ListType
  <2>2. next' = [[next EXCEPT ![fresh] = Clean(r)] EXCEPT ![l] = [next[l] EXCEPT !.to = fresh]]
    BY <1>0, <1>4, <2>1
  <2> QED BY <2>1, <2>2, <1>4
<1>6. nkey'[fresh] = k /\ \A m \in NodeId : m # fresh => nkey'[m] = nkey[m]
  BY <1>0, <1>4, LocalTypes DEF ListType
<1>7. ~ next'[l].mark /\ ~ next'[l].freeze /\ ~ next'[fresh].mark /\ ~ next'[fresh].freeze
  <2>1. next'[l] = [Clean(r) EXCEPT !.to = fresh]
    BY <1>0, <1>5
  <2>2. ~ next'[l].mark /\ ~ next'[l].freeze
    BY <2>1 DEF Clean
  <2> QED BY <2>2, <1>2, <1>5
<1>8. \A m \in Linked : /\ next'[m].mark <=> next[m].mark
                        /\ next'[m].freeze <=> next[m].freeze
                        /\ nkey'[m] = nkey[m] /\ m # fresh
  BY <1>2, <1>4, <1>5, <1>6, <1>7
<1>9. k \notin Present
  BY <1>1, <1>2, LocalTypes, UnmarkedInList, Gap
<1>10. Present' = Present \cup {k}
  BY <1>4, <1>6, <1>7, <1>8 DEF Present
<1>11. Dropped' = Dropped
  BY <1>4, <1>7, <1>8 DEF Dropped
<1>12. Frozen' <=> Frozen
  BY <1>4, <1>7, <1>8 DEF Frozen
<1>13. ListState' = ListState /\ ListState # "closed"
  BY <1>0, <1>1, <1>2, <1>12, NotClosed DEF ListState
<1>14. /\ result[t] = "none" /\ result' = [result EXCEPT ![t] = "yes"]
       /\ result'[t] = "yes" /\ key'[t] = 1
       /\ \A u \in Thread : u # t => result'[u] = result[u] /\ key'[u] = key[u]
  BY <1>0 DEF Answering, Answers, Respond, IInv, TypeOK
<1>15. Arg[t] = k /\ Arg' = [Arg EXCEPT ![t] = 0]
  BY <1>0, <1>1, <1>14 DEF Arg
<1>16. Set!Observe
  BY <1>0, SetObserves
<1>17. Taken' = Taken
  <2>1. \A u \in Thread : ~ (op[u] = "collect" /\ result[u] # "none")
    <3> SUFFICES ASSUME NEW u \in Thread, op[u] = "collect", result[u] # "none" PROVE FALSE
      OBVIOUS
    <3>1. closed
      BY LocalTypes DEF Answering, Answers, ThreadInv, Collecting
    <3> QED BY <3>1, <1>1, <1>2, NotClosed
  <2> QED BY <2>1, <1>0, <1>1, <1>14 DEF Taken
<1>18. Answering'
  BY <1>0, <1>12, RespondAnswers
<1> QED BY <1>0, <1>1, <1>9, <1>10, <1>11, <1>13, <1>14, <1>15, <1>16, <1>17, <1>18
        DEF Set!Link, Set!Reply, Set!NoKey

\* The key of the node that remove marks leaves the set.
LEMMA RemoveMarkMaps ==
    ASSUME IInv, Answering, Observe, NEW t \in Thread, RemoveMark(t)
    PROVE  Set!Drop(t) /\ Set!Observe /\ Answering'
<1> DEFINE n == right[t]
           w == word[t]
           k == key[t]
<1>0. /\ pc[t] = "mark" /\ UNCHANGED <<nkey, fresh, op, key, got, word, result, closed>>
      /\ Goto(t, "mark", "unlink")
      /\ next[n] = w /\ next' = [next EXCEPT ![n] = [w EXCEPT !.mark = TRUE]]
  BY DEF RemoveMark, CAS, Goto, call, locals
<1>1. op[t] = "remove" /\ ~ w.mark /\ n \in Allocated /\ nkey[n] = k
  BY <1>0, LocalTypes DEF ThreadInv, Local
<1>2. /\ n \in NodeId /\ Linked \subseteq NodeId /\ Allocated \subseteq Linked /\ w \in Word
      /\ Allocated' = Allocated /\ Linked' = Linked
  BY <1>0, <1>1, LocalTypes, NodeFacts, NodeKeys DEF ListType, Allocated, Linked
<1>3. /\ next'[n].mark /\ (next'[n].freeze <=> next[n].freeze)
      /\ \A m \in NodeId : m # n => next'[m] = next[m]
  <2>1. next \in [NodeId -> Word]
    BY LocalTypes DEF ListType
  <2>2. [w EXCEPT !.mark = TRUE].mark /\ [w EXCEPT !.mark = TRUE].freeze = w.freeze
    BY <1>2 DEF Word
  <2> QED BY <2>1, <2>2, <1>0, <1>2
<1>4. Frozen' <=> Frozen
  BY <1>2, <1>3 DEF Frozen
<1>5. \A m \in Allocated : ~ next[m].mark /\ nkey[m] = k => m = n
  BY <1>0, <1>1, <1>2, LocalTypes, UnmarkedInList, UniqueKeys
<1>6. Present' = Present \ {k} /\ k \in Present
  BY <1>0, <1>1, <1>2, <1>3, <1>5 DEF Present
<1>7. Dropped' = Dropped \cup {k}
  BY <1>0, <1>1, <1>2, <1>3 DEF Dropped
<1>8. ListState' = ListState /\ Arg' = Arg /\ Taken' = Taken
  BY <1>0, <1>4, Zenon DEF ListState, Arg, Taken
<1>9. result[t] = "none" /\ Arg[t] = k
  BY <1>0, <1>1 DEF Answering, Answers, Arg
<1>10. Set!Observe
  BY <1>0, SetObserves
<1>11. Answering'
  <2>1. /\ pc'[t] = "unlink" /\ \A u \in Thread : u # t => pc'[u] = pc[u]
    BY <1>0 DEF Goto, IInv, TypeOK
  <2>2. word'[t].freeze => Frozen'
    BY <1>0, <1>4 DEF Answering, Answers
  <2> QED BY <2>1, <2>2, <1>0, <1>4, <1>9, AnswersStep
<1> QED BY <1>0, <1>1, <1>6, <1>7, <1>8, <1>9, <1>10, <1>11 DEF Set!Drop

\* remove returns: the key was in the set, and has left it.
LEMMA RemoveUnlinkMaps ==
    ASSUME IInv, Answering, Observe, NEW t \in Thread, RemoveUnlink(t)
    PROVE  Set!Gone(t) /\ Set!Observe /\ Answering'
<1> DEFINE w == [word[t] EXCEPT !.mark = FALSE]
<1>0. /\ pc[t] = "unlink" /\ UNCHANGED <<nkey, fresh, got, closed>>
      /\ Respond(t, "unlink", "yes")
      /\ CAS(left[t], Clean(right[t]), w) \/ UNCHANGED next
  BY DEF RemoveUnlink, Respond, Goto
<1>1. /\ op[t] = "remove" /\ TRUE \in seen[t] /\ FALSE \in seen[t] /\ left[t] \in Linked
  BY <1>0, LocalTypes DEF ThreadInv, Local, FindPC, Witnessed
<1>2. ~ w.mark /\ (w.freeze => Frozen)
  <2>1. ~ w.mark /\ w.freeze = word[t].freeze
    BY LocalTypes DEF Word
  <2> QED BY <2>1 DEF Answering, Answers
<1>3. SameMarks /\ (Frozen' <=> Frozen)
  <2>1. CASE UNCHANGED next
    BY <2>1, <1>0, SameList DEF list
  <2>2. CASE CAS(left[t], Clean(right[t]), w)
    BY <2>2, <1>0, <1>1, <1>2, SameBits
  <2> QED BY <1>0, <2>1, <2>2
<1>4. op[t] \in Updates \cup {"search"}
  BY <1>1 DEF Updates
<1>5. Set!Reply(t, "remove", "yes") /\ UNCHANGED <<Set!set, Taken>> /\ Set!Observe
  BY <1>0, <1>1, <1>3, <1>4, Replies
<1>6. Answering'
  BY <1>0, <1>3, RespondAnswers
<1>7. BOOLEAN \subseteq seen[t]
  BY <1>1, Zenon
<1> QED BY <1>5, <1>6, <1>7 DEF Set!Gone

LEMMA SearchEndsMaps ==
    ASSUME IInv, Answering, Observe, NEW t \in Thread, SearchEnds(t)
    PROVE  (Set!Found(t) \/ Set!Absent(t)) /\ Set!Observe /\ Answering'
<1> DEFINE n == left[t]
           found == nkey[n] = key[t] /\ ~ next[n].mark
<1>0. /\ pc[t] = "search" /\ UNCHANGED <<got, closed>> /\ UNCHANGED list /\ nkey[n] >= key[t]
      /\ Respond(t, "search", IF found THEN "yes" ELSE "no")
  BY DEF SearchEnds, SearchEndsWith, Respond, Goto
<1>1. PICK res : res = IF found THEN "yes" ELSE "no"
  OBVIOUS
<1>2. res \in {"yes", "no"} /\ (res = "yes" => found) /\ (res = "no" => ~ found)
  BY <1>1
<1>3. op[t] = "search" /\ n \in Node
  BY <1>0, LocalTypes DEF ThreadInv, Local
<1>4. /\ Set!Reply(t, "search", res) /\ UNCHANGED <<Set!set, Taken>> /\ Set!Observe
      /\ Arg[t] = key[t] /\ Answering'
  <2>1. Respond(t, "search", res) /\ res # "none"
    BY <1>0, <1>1, <1>2
  <2>2. SameMarks /\ (Frozen' <=> Frozen)
    BY <1>0, SameList
  <2> QED BY <2>1, <2>2, <1>0, <1>3, Replies, RespondAnswers
<1>5. found => key[t] \in Present
  <2>1. found => n \in Allocated
    BY <1>3, NodeKeys DEF Node, Linked
  <2> QED BY <2>1 DEF Present
<1>6. ~ found => FALSE \in seen[t]
  <2>1. CASE nkey[n] # key[t]
    <3>1. key[t] < nkey[n]
      BY <2>1, <1>0, <1>3, NodeKeys
    <3> QED BY <3>1, <1>0, LocalTypes DEF ThreadInv, Searching
  <2>2. CASE nkey[n] = key[t] /\ next[n].mark
    <3>1. PICK W \in SUBSET Linked : n \in W \cup {TailId} /\ Searched(W, key[t], seen[t])
      BY <1>0, LocalTypes DEF ThreadInv, Searching
    <3>2. n \in W
      BY <2>2, <3>1, NodeKeys
    <3> QED BY <2>2, <3>1, <3>2 DEF Searched
  <2> QED BY <2>1, <2>2
<1> HIDE DEF found
<1>7. CASE res = "yes"
  BY <1>2, <1>4, <1>5, <1>7 DEF Set!Found
<1>8. CASE res = "no"
  BY <1>2, <1>4, <1>6, <1>8 DEF Set!Absent
<1> QED BY <1>2, <1>4, <1>7, <1>8

\* The first pointer that a collect freezes begins the freezing.
LEMMA CollectFreezeMaps ==
    ASSUME IInv, Answering, Observe, NEW t \in Thread, CollectFreeze(t)
    PROVE  /\ UNCHANGED Set!vars \/ (Set!Begin(t) /\ Set!Observe)
           /\ Answering'
<1> DEFINE n == left[t]
<1>0. /\ pc[t] = "collect" /\ UNCHANGED <<nkey, fresh, op, key, result, closed, word, got>>
      /\ Goto(t, "collect", "collectRead") /\ n # TailId
      /\ next' = [next EXCEPT ![n] = [next[n] EXCEPT !.freeze = TRUE]]
  BY DEF CollectFreeze, Goto, call, locals
<1>1. op[t] = "collect" /\ n \in Linked /\ n \in NodeId
  BY <1>0, LocalTypes, NodeKeys DEF ThreadInv, Local, Node
<1>2. /\ Linked \subseteq NodeId /\ Allocated \subseteq Linked /\ Linked' = Linked
      /\ next \in [NodeId -> Word]
  BY <1>0, LocalTypes, NodeFacts, NodeKeys DEF ListType, Allocated, Linked
<1>3. /\ next'[n].freeze /\ (next'[n].mark <=> next[n].mark)
      /\ \A m \in NodeId : m # n => next'[m] = next[m]
  <2>1. next[n] \in Word
    BY <1>1, <1>2
  <2>2. /\ [next[n] EXCEPT !.freeze = TRUE].freeze
        /\ [next[n] EXCEPT !.freeze = TRUE].mark = next[n].mark
    BY <2>1 DEF Word
  <2> QED BY <2>2, <1>0, <1>1, <1>2
<1>4. SameMarks
  BY <1>0, <1>2, <1>3 DEF SameMarks
<1>5. Frozen'
  BY <1>1, <1>2, <1>3 DEF Frozen
<1>6. result[t] = "none"
  BY <1>0 DEF Answering, Answers
<1>7. Answering'
  <2>1. /\ pc'[t] = "collectRead" /\ \A u \in Thread : u # t => pc'[u] = pc[u]
    BY <1>0 DEF Goto, IInv, TypeOK
  <2> QED BY <2>1, <1>0, <1>5, <1>6, AnswersStep
<1>8. CASE Frozen \/ closed
  BY <1>0, <1>4, <1>5, <1>7, <1>8, Quiet
<1>9. CASE ~ Frozen /\ ~ closed
  <2>1. Present' = Present /\ Dropped' = Dropped
    BY <1>4, SameSet
  <2>2. ListState = "open" /\ ListState' = "freezing"
    BY <1>0, <1>5, <1>9 DEF ListState
  <2>3. Arg' = Arg /\ Taken' = Taken
    BY <1>0, Zenon DEF Arg, Taken
  <2>4. Set!Observe
    BY <1>0, SetObserves
  <2> QED BY <2>1, <2>2, <2>3, <2>4, <1>0, <1>1, <1>6, <1>7 DEF Set!Begin
<1> QED BY <1>8, <1>9

\* A collect has pushed nodes with keys, and the tail at most as the last.
Pulled(t) ==
    /\ op[t] # "collect" => got[t] = <<>>
    /\ \A i \in DOMAIN got[t] : got[t][i] \in Allocated \/ (i = Len(got[t]) /\ left[t] = TailId)

Pulling == \A t \in Thread : Pulled(t)

\* The threads that push nothing.
LEMMA PulledStays ==
    ASSUME IInv, Pulling, NEW u \in Thread, got'[u] = got[u], fresh' \in Nat, fresh <= fresh',
           \/ op'[u] = op[u] /\ (op[u] # "collect" \/ left'[u] = left[u])
           \/ pc[u] = "idle"
    PROVE  Pulled(u)'
<1>1. Pulled(u)
  BY DEF Pulling
<1>2. CASE got[u] = <<>>
  BY <1>2 DEF Pulled
<1>3. CASE got[u] # <<>>
  <2>1. op[u] = "collect" /\ op'[u] = op[u] /\ left'[u] = left[u]
    BY <1>1, <1>3, LocalTypes DEF Pulled, ThreadInv, Local
  <2>2. Allocated \subseteq Allocated'
    BY Typed DEF ListType, Allocated
  <2> QED BY <1>1, <2>1, <2>2 DEF Pulled
<1> QED BY <1>2, <1>3

LEMMA CollectReadPulls ==
    ASSUME IInv, Pulling, NEW t \in Thread, CollectRead(t)
    PROVE  Pulled(t)'
<1> DEFINE w == next[left[t]]
           g == got[t]
<1>0. /\ pc[t] = "collectRead" /\ UNCHANGED list /\ op' = op
      /\ got' = [got EXCEPT ![t] = IF w.mark THEN g ELSE Append(g, w.to)]
      /\ left' = [left EXCEPT ![t] = w.to]
  BY DEF CollectRead, Goto, call
<1>1. op[t] = "collect" /\ left[t] \in Linked /\ w.to \in Allocated \cup {TailId}
  BY <1>0, LocalTypes, NodeKeys DEF ThreadInv, Local, Node
<1>2. /\ g \in Seq(NodeId) /\ Pulled(t) /\ left[t] # TailId /\ w.to \in NodeId
  BY <1>0, <1>1, LocalTypes, NodeKeys, NodeFacts DEF ThreadInv, Local, Pulling, ListType
<1>3. \A i \in DOMAIN g : g[i] \in Allocated
  BY <1>2 DEF Pulled
<1>4. /\ left'[t] = w.to /\ op'[t] = "collect" /\ Allocated' = Allocated
      /\ got'[t] = IF w.mark THEN g ELSE Append(g, w.to)
  BY <1>0, <1>1, ListSame DEF IInv, TypeOK
<1>5. CASE w.mark
  BY <1>3, <1>4, <1>5 DEF Pulled
<1>6. CASE ~ w.mark
  <2>1. got'[t] = Append(g, w.to)
    BY <1>4, <1>6
  <2>2. /\ Len(Append(g, w.to)) = Len(g) + 1 /\ DOMAIN Append(g, w.to) = 1 .. Len(g) + 1
        /\ DOMAIN g = 1 .. Len(g) /\ Len(g) \in Nat
        /\ Append(g, w.to)[Len(g) + 1] = w.to
        /\ \A i \in 1 .. Len(g) : Append(g, w.to)[i] = g[i]
    BY <1>2
  <2>3. ASSUME NEW i \in 1 .. Len(g) + 1
        PROVE  got'[t][i] \in Allocated' \/ (i = Len(got'[t]) /\ left'[t] = TailId)
    <3>1. CASE i \in 1 .. Len(g)
      BY <2>1, <2>2, <3>1, <1>3, <1>4
    <3>2. CASE i = Len(g) + 1
      BY <2>1, <2>2, <3>2, <1>1, <1>4
    <3> QED BY <2>2, <3>1, <3>2
  <2> QED BY <2>1, <2>2, <2>3, <1>4 DEF Pulled
<1> QED BY <1>5, <1>6

\* pop_back leaves no sentinel.
LEMMA PopPulls ==
    ASSUME IInv, Pulling, NEW t \in Thread, NEW g, g = SubSeq(got[t], 1, Len(got[t]) - 1)
    PROVE  \A i \in DOMAIN g : g[i] \in Allocated
<1>1. got[t] \in Seq(NodeId) /\ Pulled(t)
  BY LocalTypes DEF Pulling
<1>2. /\ Len(got[t]) \in Nat /\ DOMAIN got[t] = 1 .. Len(got[t])
      /\ DOMAIN g = 1 .. Len(got[t]) - 1
      /\ \A i \in 1 .. Len(got[t]) - 1 : g[i] = got[t][i]
  BY <1>1
<1>3. \A i \in 1 .. Len(got[t]) - 1 : i \in DOMAIN got[t] /\ i # Len(got[t])
  BY <1>2
<1> QED BY <1>1, <1>2, <1>3 DEF Pulled

LEMMA PullingStep ==
    ASSUME IInv, IInv', Pulling, NEW t \in Thread,
           Step(t) \/ \E o \in Updates \cup {"search", "collect"}, k \in Key : Call(t, o, k)
    PROVE  Pulling'
<1>0. fresh' \in Nat /\ fresh <= fresh'
  <2>1. fresh \in Nat /\ fresh' \in Nat
    BY BoundsAssumption DEF IInv, TypeOK
  <2>2. fresh' = fresh \/ fresh' = fresh + 1
    BY DEF Step, FindFromHead, FindFrozen, FindMarked, FindUnlink, FindRetry,
           FindAdvance, Advance, FindEnds, Insert, Link, InsertRetry, RemoveLoad, RemoveMark,
           RemoveRetry, RemoveUnlink, SearchNext, SearchEnds, SearchEndsWith, CollectFreeze,
           CollectRead, CollectEnd, Return, Call, list
  <2> QED BY <2>1, <2>2
<1>1. ASSUME NEW u \in Thread, u # t PROVE Pulled(u)'
  <2>1. got' = got \/ \E g : got' = [got EXCEPT ![t] = g]
    BY DEF Step, FindFromHead, FindFrozen, FindMarked, FindUnlink, FindRetry,
           FindAdvance, Advance, FindEnds, Insert, Link, InsertRetry, RemoveLoad, RemoveMark,
           RemoveRetry, RemoveUnlink, SearchNext, SearchEnds, SearchEndsWith, CollectFreeze,
           CollectRead, CollectEnd, Return, Call, Respond, call, locals
  <2>2. op' = op \/ \E o : op' = [op EXCEPT ![t] = o]
    BY DEF Step, FindFromHead, FindFrozen, FindMarked, FindUnlink, FindRetry,
           FindAdvance, Advance, FindEnds, Insert, Link, InsertRetry, RemoveLoad, RemoveMark,
           RemoveRetry, RemoveUnlink, SearchNext, SearchEnds, SearchEndsWith, CollectFreeze,
           CollectRead, CollectEnd, Return, Call, Respond, call, locals
  <2>3. left' = left \/ \E l : left' = [left EXCEPT ![t] = l]
    BY DEF Step, FindFromHead, FindFrozen, FindMarked, FindUnlink, FindRetry,
           FindAdvance, Advance, FindEnds, Insert, Link, InsertRetry, RemoveLoad, RemoveMark,
           RemoveRetry, RemoveUnlink, SearchNext, SearchEnds, SearchEndsWith, CollectFreeze,
           CollectRead, CollectEnd, Return, Call, Respond, call, locals
  <2>4. got'[u] = got[u] /\ op'[u] = op[u] /\ left'[u] = left[u]
    BY <1>1, <2>1, <2>2, <2>3 DEF IInv, TypeOK
  <2> QED BY <2>4, <1>0, PulledStays
<1>2. Pulled(t)'
  <2>1. CASE CollectRead(t)
    BY <2>1, CollectReadPulls
  <2>2. CASE CollectEnd(t)
    <3>1. PICK g : g = SubSeq(got[t], 1, Len(got[t]) - 1)
      OBVIOUS
    <3>2. got'[t] = g /\ op'[t] = op[t] /\ UNCHANGED list /\ pc[t] = "collect"
      BY <2>2, <3>1 DEF CollectEnd, Respond, Goto, IInv, TypeOK
    <3>3. op'[t] = "collect" /\ Allocated' = Allocated
      BY <3>2, LocalTypes, ListSame DEF ThreadInv, Local
    <3>4. \A i \in DOMAIN g : g[i] \in Allocated
      BY <3>1, PopPulls
    <3> QED BY <3>2, <3>3, <3>4 DEF Pulled
  <2>3. CASE Return(t)
    <3>1. got'[t] = <<>>
      BY <2>3 DEF Return, IInv, TypeOK
    <3> QED BY <3>1 DEF Pulled
  <2>4. CASE CollectFreeze(t)
    BY <2>4, <1>0, PulledStays DEF CollectFreeze, call, locals
  <2>5. ASSUME NEW o, NEW k, Call(t, o, k) PROVE Pulled(t)'
    BY <2>5, <1>0, PulledStays DEF Call, Goto, locals
  <2>6. CASE \/ FindFromHead(t) \/ FindFrozen(t) \/ FindMarked(t) \/ FindUnlink(t) \/ FindRetry(t)
             \/ FindAdvance(t) \/ FindEnds(t) \/ Insert(t) \/ InsertRetry(t)
             \/ RemoveLoad(t) \/ RemoveMark(t) \/ RemoveRetry(t) \/ RemoveUnlink(t)
             \/ SearchNext(t) \/ SearchEnds(t)
    <3>1. got' = got /\ op' = op /\ pc[t] \in {"find", "search"} \cup FindPC
      BY <2>6 DEF FindFromHead, FindFrozen, FindMarked, FindUnlink, FindRetry,
         FindAdvance, Advance, FindEnds, Insert, Link, InsertRetry, RemoveLoad, RemoveMark,
         RemoveRetry, RemoveUnlink, SearchNext, SearchEnds, SearchEndsWith, Respond, Goto, FindPC,
         call, locals
    <3>2. op[t] # "collect"
      BY <3>1, LocalTypes DEF ThreadInv, Local, Updates
    <3> QED BY <3>1, <3>2, <1>0, PulledStays
  <2> QED BY <2>1, <2>2, <2>3, <2>4, <2>5, <2>6 DEF Step
<1> QED BY <1>1, <1>2 DEF Pulling

KeysOf(s) == {nkey[s[i]] : i \in DOMAIN s}

\* What a collect returns.
LEMMA TakenIs ==
    ASSUME NEW u \in Thread, nkey' = nkey
    PROVE  /\ Taken[u] = (IF op[u] = "collect" /\ result[u] # "none" THEN KeysOf(got[u]) ELSE {})
           /\ Taken'[u] = (IF op'[u] = "collect" /\ result'[u] # "none" THEN KeysOf(got'[u]) ELSE {})
<1>1. Taken[u] = (IF op[u] = "collect" /\ result[u] # "none" THEN KeysOf(got[u]) ELSE {})
  BY Zenon DEF Taken, KeysOf
<1>2. Taken'[u] = (IF op'[u] = "collect" /\ result'[u] # "none"
                     THEN {nkey'[got'[u][i]] : i \in DOMAIN got'[u]} ELSE {})
  BY Zenon DEF Taken
<1>3. {nkey'[got'[u][i]] : i \in DOMAIN got'[u]} = KeysOf(got'[u])
  BY DEF KeysOf
<1> QED BY <1>1, <1>2, <1>3

LEMMA TakenExcept ==
    ASSUME NEW t \in Thread, NEW S, Taken'[t] = S, \A u \in Thread : u # t => Taken'[u] = Taken[u]
    PROVE  Taken' = [Taken EXCEPT ![t] = S]
<1>1. DOMAIN Taken = Thread /\ DOMAIN Taken' = Thread
  BY Zenon DEF Taken
<1>2. Taken = [u \in Thread |-> Taken[u]] /\ Taken' = [u \in Thread |-> Taken'[u]]
  BY Zenon DEF Taken
<1> QED BY <1>1, <1>2

\* collect returns the keys of the set, if none was ever removed.
LEMMA CollectEndMaps ==
    ASSUME IInv, Answering, Pulling, Observe, NEW t \in Thread, CollectEnd(t)
    PROVE  Set!Collect(t) /\ Set!Observe /\ Answering'
<1>0. /\ pc[t] = "collect" /\ op' = op /\ UNCHANGED list /\ closed' = TRUE /\ left[t] = TailId
      /\ Respond(t, "collect", "yes")
      /\ got' = [got EXCEPT ![t] = SubSeq(got[t], 1, Len(got[t]) - 1)]
  BY DEF CollectEnd, Respond, Goto
<1>1. PICK g : g = SubSeq(got[t], 1, Len(got[t]) - 1)
  OBVIOUS
<1>2. op[t] = "collect"
  BY <1>0, LocalTypes DEF ThreadInv, Local
<1>3. /\ result' = [result EXCEPT ![t] = "yes"] /\ key' = [key EXCEPT ![t] = 1] /\ result[t] = "none"
      /\ result'[t] = "yes" /\ got'[t] = g
      /\ \A u \in Thread : u # t => result'[u] = result[u] /\ key'[u] = key[u] /\ got'[u] = got[u]
  BY <1>0, <1>1 DEF Answering, Answers, Respond, IInv, TypeOK
<1>4. PICK P \in SUBSET Linked : FrozenPath(P, TailId) /\ Pushed(P, TailId, got[t])
  BY <1>0, LocalTypes DEF ThreadInv, Collecting
<1>5. HeadId \in P /\ \A p \in P : next[p].freeze /\ next[p].to \in P \cup {TailId}
  BY <1>4, NodeKeys DEF FrozenPath
<1>6. ListState # "open" /\ ListState' = "closed"
  BY <1>0, <1>5 DEF ListState, Frozen
<1>7. SameMarks /\ (Frozen' <=> Frozen) /\ nkey' = nkey
  BY <1>0, SameList DEF SameMarks
<1>8. Present' = Present /\ Dropped' = Dropped
  BY <1>7, SameSet
<1>9. PICK S : S = KeysOf(g)
  OBVIOUS
<1>10. S \in SUBSET Key
  <2>1. \A i \in DOMAIN g : g[i] \in Allocated
    BY <1>1, PopPulls
  <2>2. \A n \in Allocated : nkey[n] \in Key
    BY LocalTypes DEF Shape, Pointers
  <2> QED BY <2>1, <2>2, <1>9 DEF KeysOf
<1>11. Dropped = {} => S = Present
  <2> SUFFICES ASSUME Dropped = {} PROVE S = Present
    OBVIOUS
  <2>1. Unmarked
    BY DEF Dropped, Unmarked
  <2>2. \A m \in Linked : InList(m)
    BY <2>1, LocalTypes, UnmarkedInList, NodeKeys DEF Unmarked, Linked
  <2>3. P = Linked
    BY <2>2, <1>5 DEF InList
  <2>4. /\ RangeOf(got[t]) \cup {HeadId} = Linked \cup {TailId} /\ Ascending(got[t])
        /\ HeadId \notin RangeOf(got[t])
    BY <2>1, <2>3, <1>4 DEF Pushed
  <2>5. TailId \in RangeOf(got[t])
    BY <2>4, NodeKeys
  <2>6. RangeOf(g) = RangeOf(got[t]) \ {TailId}
    BY <2>4, <2>5, <1>1, LocalTypes, PopTail
  <2>7. TailId \notin Allocated /\ HeadId \notin Allocated
    BY NodeFacts, LocalTypes DEF ListType
  <2>8. RangeOf(g) = Allocated
    BY <2>4, <2>6, <2>7 DEF Linked
  <2>9. S = {nkey[n] : n \in RangeOf(g)}
    BY <1>9 DEF KeysOf, RangeOf
  <2> QED BY <2>1, <2>8, <2>9 DEF Present, Unmarked
<1>12. Taken' = [Taken EXCEPT ![t] = S]
  <2>1. Taken'[t] = S
    BY <1>0, <1>2, <1>3, <1>7, <1>9, TakenIs
  <2>2. \A u \in Thread : u # t => Taken'[u] = Taken[u]
    BY <1>0, <1>3, <1>7, TakenIs
  <2> QED BY <2>1, <2>2, TakenExcept
<1>13. Arg' = [Arg EXCEPT ![t] = 0]
  BY <1>0, <1>2, <1>3 DEF Arg
<1>14. Set!Observe
  BY <1>0, SetObserves
<1>15. Answering'
  BY <1>0, <1>7, RespondAnswers
<1>16. Set!Reply(t, "collect", "yes")
  BY <1>0, <1>2, <1>3, <1>13 DEF Set!Reply, Set!NoKey
<1> QED BY <1>6, <1>8, <1>10, <1>11, <1>12, <1>14, <1>15, <1>16 DEF Set!Collect

-----------------------------------------------------------------------------
(* Calls, returns and the initial state *)

LEMMA ReturnMaps ==
    ASSUME IInv, Answering, Observe, NEW t \in Thread, Return(t)
    PROVE  Set!Return(t) /\ Set!Observe /\ Answering'
<1>0. /\ pc[t] = "return" /\ UNCHANGED <<key, word, closed>> /\ UNCHANGED list
      /\ Goto(t, "return", "idle")
      /\ op' = [op EXCEPT ![t] = "none"] /\ got' = [got EXCEPT ![t] = <<>>]
      /\ result' = [result EXCEPT ![t] = "none"]
  BY DEF Return, Goto
<1>1. /\ op'[t] = "none" /\ result'[t] = "none" /\ pc'[t] = "idle" /\ result[t] # "none"
      /\ \A u \in Thread : u # t => /\ op'[u] = op[u] /\ result'[u] = result[u]
                                    /\ got'[u] = got[u] /\ pc'[u] = pc[u]
  BY <1>0 DEF Goto, Answering, Answers, IInv, TypeOK
<1>2. SameMarks /\ (Frozen' <=> Frozen) /\ nkey' = nkey
  BY <1>0, SameList DEF SameMarks
<1>3. Present' = Present /\ Dropped' = Dropped
  BY <1>2, SameSet
<1>4. ListState' = ListState
  BY <1>0, <1>2, Zenon DEF ListState
<1>5. Arg' = Arg
  BY <1>0, <1>1 DEF Arg
<1>6. Taken' = [Taken EXCEPT ![t] = {}]
  <2>1. Taken'[t] = {}
    BY <1>1 DEF Taken
  <2>2. \A u \in Thread : u # t => Taken'[u] = Taken[u]
    BY <1>1, <1>2, TakenIs
  <2> QED BY <2>1, <2>2, TakenExcept
<1>7. Set!Observe
  <2>1. \A u \in Thread : op[u] = "none" => op'[u] = "none"
    BY <1>1
  <2> QED BY <2>1, SetObserves
<1>8. Answering'
  <2>1. word'[t].freeze => Frozen'
    BY <1>0, <1>2 DEF Answering, Answers
  <2> QED BY <2>1, <1>0, <1>1, <1>2, AnswersStep
<1> QED BY <1>0, <1>1, <1>3, <1>4, <1>5, <1>6, <1>7, <1>8 DEF Set!Return, Set!set

LEMMA CallMaps ==
    ASSUME IInv, Answering, Observe, NEW t \in Thread,
           NEW o \in Updates \cup {"search", "collect"}, NEW k \in Key, Call(t, o, k)
    PROVE  Set!Call(t, o, k) /\ Set!Observe /\ Answering'
<1>1. PICK p : p = IF o \in Updates THEN "find" ELSE o
  OBVIOUS
<1>2. p # "return" /\ o # "none"
  BY <1>1 DEF Updates
<1>3. /\ Goto(t, "idle", p) /\ op' = [op EXCEPT ![t] = o] /\ key' = [key EXCEPT ![t] = k]
      /\ UNCHANGED <<word, got, result, closed>> /\ UNCHANGED list
  BY <1>1 DEF Call, locals
<1>4. /\ pc[t] = "idle" /\ pc'[t] = p /\ op'[t] = o /\ key'[t] = k
      /\ \A u \in Thread : u # t => pc'[u] = pc[u] /\ op'[u] = op[u] /\ key'[u] = key[u]
  BY <1>3 DEF Goto, IInv, TypeOK
<1>5. op[t] = "none" /\ result[t] = "none"
  BY <1>4, LocalTypes DEF ThreadInv, Local, Answering, Answers
<1>6. SameMarks /\ (Frozen' <=> Frozen) /\ nkey' = nkey
  BY <1>3, SameList DEF SameMarks
<1>7. Present' = Present /\ Dropped' = Dropped
  BY <1>6, SameSet
<1>8. ListState' = ListState
  BY <1>3, <1>6, Zenon DEF ListState
<1>9. Arg' = [Arg EXCEPT ![t] = k] /\ Arg'[t] = key'[t]
  BY <1>2, <1>3, <1>4, <1>5 DEF Arg
<1>10. Taken' = Taken
  BY <1>3, <1>4, <1>5, <1>6 DEF Taken
<1>11. Set!Observe
  <2>1. \A u \in Thread : op[u] = "none" => op'[u] = "none" \/ Arg'[u] = key'[u]
    BY <1>4, <1>9
  <2> QED BY <2>1, SetObserves
<1>12. Answering'
  <2>1. word'[t].freeze => Frozen'
    BY <1>3, <1>6 DEF Answering, Answers
  <2> QED BY <2>1, <1>2, <1>3, <1>4, <1>5, <1>6, AnswersStep
<1> QED BY <1>3, <1>5, <1>7, <1>8, <1>9, <1>10, <1>11, <1>12 DEF Set!Call, Set!set

LEMMA InitMaps == Init => Set!Init /\ Answering /\ Pulling
<1> SUFFICES ASSUME Init PROVE Set!Init /\ Answering /\ Pulling
  OBVIOUS
<1>1. /\ next = [n \in NodeId |-> Clean(IF n = TailId THEN Null
                                        ELSE IF n + 1 < fresh THEN n + 1 ELSE TailId)]
      /\ fresh \in 1 .. MaxNode + 1 /\ \A n \in Allocated : nkey[n] \in Key
      /\ pc = [t \in Thread |-> "idle"] /\ op = [t \in Thread |-> "none"]
      /\ word = [t \in Thread |-> Clean(TailId)] /\ got = [t \in Thread |-> <<>>]
      /\ result = [t \in Thread |-> "none"] /\ seen = [t \in Thread |-> {}] /\ closed = FALSE
  BY BoundsAssumption DEF Init
<1>2. Linked \subseteq NodeId /\ Allocated \subseteq NodeId
  BY <1>1, NodeFacts
<1>3. \A n \in NodeId : ~ next[n].mark /\ ~ next[n].freeze
  BY <1>1 DEF Clean
<1>4. Present \in SUBSET Key /\ Dropped = {} /\ ~ Frozen
  BY <1>1, <1>2, <1>3 DEF Present, Dropped, Frozen
<1>5. ListState = "open"
  BY <1>1, <1>4 DEF ListState
<1>6. Arg = [t \in Thread |-> 0] /\ Taken = [t \in Thread |-> {}]
  BY <1>1 DEF Arg, Taken
<1>7. Set!Init
  BY <1>1, <1>4, <1>5, <1>6 DEF Set!Init, Set!NoKey
<1>8. Answering
  BY <1>1 DEF Answering, Answers, Clean
<1>9. Pulling
  BY <1>1 DEF Pulling, Pulled
<1> QED BY <1>7, <1>8, <1>9

-----------------------------------------------------------------------------
(* Every step *)

LEMMA StepMaps ==
    ASSUME IInv, Answering, Pulling, Observe, NEW t \in Thread, Step(t)
    PROVE  /\ UNCHANGED Set!vars \/ (Set!Step(t) /\ Set!Observe)
           /\ Answering'
<1> USE DEF Set!Step
<1>1. CASE \/ FindFromHead(t) \/ FindMarked(t) \/ FindRetry(t) \/ FindAdvance(t) \/ InsertRetry(t)
           \/ RemoveLoad(t) \/ RemoveRetry(t) \/ SearchNext(t) \/ CollectRead(t)
  BY <1>1, SilentSteps
<1>2. CASE FindUnlink(t)
  BY <1>2, FindUnlinkMaps
<1>3. CASE FindFrozen(t)
  BY <1>3, FindFrozenMaps
<1>4. CASE FindEnds(t)
  BY <1>4, FindEndsMaps
<1>5. CASE Insert(t)
  BY <1>5, InsertMaps
<1>6. CASE RemoveMark(t)
  BY <1>6, RemoveMarkMaps
<1>7. CASE RemoveUnlink(t)
  BY <1>7, RemoveUnlinkMaps
<1>8. CASE SearchEnds(t)
  BY <1>8, SearchEndsMaps
<1>9. CASE CollectFreeze(t)
  BY <1>9, CollectFreezeMaps
<1>10. CASE CollectEnd(t)
  BY <1>10, CollectEndMaps
<1>11. CASE Return(t)
  BY <1>11, ReturnMaps
<1> QED BY <1>1, <1>2, <1>3, <1>4, <1>5, <1>6, <1>7, <1>8, <1>9, <1>10, <1>11 DEF Step

LEMMA NextMaps ==
    ASSUME IInv, IInv', Answering, Pulling, [Next]_vars
    PROVE  [Set!Next]_(Set!vars) /\ Answering' /\ Pulling'
<1>1. CASE UNCHANGED vars
  <2>1. /\ UNCHANGED list /\ UNCHANGED <<pc, op, key, left, word, got, result, seen, closed>>
    BY <1>1 DEF vars, call, locals
  <2>2. SameMarks /\ (Frozen' <=> Frozen) /\ nkey' = nkey /\ Allocated' = Allocated
    BY <2>1, SameList DEF SameMarks, Allocated
  <2>3. Present' = Present /\ Dropped' = Dropped
    BY <2>2, SameSet
  <2>4. ListState' = ListState
    BY <2>1, <2>2, Zenon DEF ListState
  <2>5. Arg' = Arg /\ Taken' = Taken
    BY <2>1, <2>2 DEF Arg, Taken
  <2>6. Answering'
    BY <2>1, <2>2 DEF Answering, Answers
  <2>7. Pulling'
    BY <2>1, <2>2 DEF Pulling, Pulled
  <2> QED BY <2>1, <2>3, <2>4, <2>5, <2>6, <2>7 DEF Set!vars, Set!set
<1>2. CASE Next
  <2>0. Observe
    BY <1>2 DEF Next
  <2>1. PICK t \in Thread : \/ Step(t)
                            \/ \E o \in Updates \cup {"search", "collect"}, k \in Key : Call(t, o, k)
    BY <1>2 DEF Next
  <2>2. Pulling'
    BY <2>1, PullingStep
  <2>3. CASE Step(t)
    BY <2>0, <2>2, <2>3, StepMaps DEF Set!Next
  <2>4. ASSUME NEW o \in Updates \cup {"search", "collect"}, NEW k \in Key, Call(t, o, k)
        PROVE  [Set!Next]_(Set!vars) /\ Answering'
    <3>1. Set!Call(t, o, k) /\ Set!Observe /\ Answering'
      BY <2>0, <2>4, CallMaps
    <3>2. o \in Set!Updates \cup {"search", "collect"}
      BY DEF Updates, Set!Updates
    <3> QED BY <3>1, <3>2 DEF Set!Next
  <2> QED BY <2>1, <2>2, <2>3, <2>4
<1> QED BY <1>1, <1>2

\* The list implements the set that can be frozen: every step of a thread is one
\* step of the set, or none.
THEOREM Refinement == Spec => ImplementsSet
<1>1. Spec => [](IInv /\ Answering /\ Pulling)
  <2>1. ASSUME IInv, IInv', Answering, Pulling, [Next]_vars PROVE Answering' /\ Pulling'
    BY <2>1, NextMaps
  <2> QED BY <2>1, InitMaps, Invariance, PTL DEF Spec
<1>2. ASSUME IInv, IInv', Answering, Pulling, [Next]_vars PROVE [Set!Next]_(Set!vars)
  BY <1>2, NextMaps
<1> QED BY <1>1, <1>2, InitMaps, PTL DEF Spec, ImplementsSet, Set!Spec

=============================================================================
