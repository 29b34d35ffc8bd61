---------------------------- MODULE DebraProofs ----------------------------
(***************************************************************************)
(* Proofs, for any number of threads, lists, nodes, epochs and nested      *)
(* guards, of what the guards of epoch-based reclamation protect, and that *)
(* it covers what find reads.                                              *)
(*                                                                         *)
(* The argument: a thread that is to advance the epoch has looked at every *)
(* announcement since it read that epoch.  A thread t that announced in an *)
(* earlier epoch and is not quiescent fails this look, so the epoch passes *)
(* the one in which t announced at most once.  A node that was not retired *)
(* when t announced goes into a current bag later; that bag comes round    *)
(* after three rotations, the first not before the epoch in which t        *)
(* announced, and each in an epoch of its own: that is one too many.       *)
(* What find may read was in a list not yet replaced, hence not retired,   *)
(* after find had announced.                                               *)
(***************************************************************************)
EXTENDS Debra, TLAPS

-----------------------------------------------------------------------------
(* The inductive invariant *)

\* What the step of a thread says of its fields.
Fields(t) ==
    /\ mine[t] <= epoch /\ mine[t] < MaxEpoch
    /\ pc[t] # "idle" => 1 <= depth[t] /\ 0 <= mine[t]
    /\ pc[t] \in {"check", "advance", "op"} => ~quiet[t]
    /\ spared[t] # {} => ~quiet[t]
    /\ found[t] # {} => pc[t] = "op" /\ role[t] = "find"
    /\ opened[t] <= epoch
    /\ ~quiet[t] => ann[t] <= opened[t]
    /\ pc[t] \in {"free", "announce", "check"} => checked[t] < N
    /\ pc[t] = "advance" => checked[t] = N
    /\ checked[t] = N => pc[t] = "advance" \/ mine[t] < epoch

\* u has not got past t in a scan for an epoch after the one t announced in.
Unscanned(t, u) == ~quiet[t] /\ opened[t] < mine[u] => checked[u] <= t

\* A node that t's announcement protects is in no bag of u that can be freed while t
\* works.
Protected(t, u) ==
    /\ spared[t] \cap freeable[u] = {}
    /\ \A o \in spared[t] : \A i \in 0 .. NBags - 1 : o \in bags[u][i] =>
          /\ i # index[u] => opened[t] <= mine[u]
          /\ i = (index[u] + 1) % NBags => opened[t] < mine[u]

\* What is not retired now was not retired when t announced, nor was what find may read.
Spares(t) ==
    /\ ~quiet[t] => Object \ Retired \subseteq spared[t]
    /\ found[t] \subseteq spared[t]

\* No node of a list that is in its slot is retired, or left for reclaimMem.
LinkedIsNew ==
    \A l \in linked : l \cap Retired = {} /\ \A u \in Thread : l \cap unlinked[u] = {}

IInv ==
    /\ TypeOK
    /\ \A t \in Thread : Fields(t)
    /\ \A t, u \in Thread : Unscanned(t, u)
    /\ GraceBounded
    /\ \A t, u \in Thread : Protected(t, u)
    /\ \A t \in Thread : Spares(t)
    /\ LinkedIsNew
    /\ SparedNotFreed

-----------------------------------------------------------------------------
(* The three bags, in the order in which they come round *)

LEMMA Rotation ==
    ASSUME NEW i \in 0 .. NBags - 1
    PROVE  /\ (i + 1) % NBags \in 0 .. NBags - 1
           /\ (i + 1) % NBags # i
           /\ (((i + 1) % NBags) + 1) % NBags # i
           /\ (((i + 1) % NBags) + 1) % NBags # (i + 1) % NBags
           /\ (((i + 1) % NBags) + 1) % NBags \in 0 .. NBags - 1
BY SMT DEF NBags

LEMMA Numbers == ASSUME IInv
                 PROVE  /\ N \in Nat /\ N > 0 /\ MaxEpoch \in Nat /\ MaxDepth \in Nat
                        /\ epoch \in Nat
                        /\ \A t \in Thread : t \in Nat /\ t < N /\ mine[t] \in Int
                              /\ opened[t] \in Nat /\ ann[t] \in Nat /\ checked[t] \in Nat /\ checked[t] <= N
                              /\ depth[t] \in Nat /\ index[t] \in 0 .. NBags - 1
BY DebraAssumption, SMT DEF IInv, TypeOK, Thread

LEMMA InRetired ==
    /\ \A o : o \in Retired <=>
                \/ o \in freed
                \/ \E u \in Thread : o \in freeable[u]
                \/ \E u \in Thread : \E i \in 0 .. NBags - 1 : o \in bags[u][i]
    /\ \A o : o \in Retired' <=>
                \/ o \in freed'
                \/ \E u \in Thread : o \in freeable'[u]
                \/ \E u \in Thread : \E i \in 0 .. NBags - 1 : o \in bags'[u][i]
BY SMT DEF Retired

LEMMA SameRetired ==
    ASSUME UNCHANGED <<bags, freeable, freed>>
    PROVE  Retired' = Retired
BY DEF Retired

-----------------------------------------------------------------------------
(* The initial state *)

LEMMA InitIInv == Init => IInv
<1> SUFFICES ASSUME Init PROVE IInv
  OBVIOUS
<1>1. 0 \in 0 .. NBags - 1
  BY SMT DEF NBags
<1>2. TypeOK
  BY <1>1, DebraAssumption, SMT DEF Init, TypeOK, Thread
<1>3. \A t \in Thread : Fields(t)
  BY DebraAssumption, SMT DEF Init, Fields, Thread
<1>4. \A t, u \in Thread : Unscanned(t, u) /\ Protected(t, u)
  BY SMT DEF Init, Unscanned, Protected
<1>5. GraceBounded /\ SparedNotFreed /\ \A t \in Thread : Spares(t)
  BY SMT DEF Init, GraceBounded, SparedNotFreed, Spares
<1>6. Retired = {}
  BY InRetired, Zenon DEF Init
<1>7. LinkedIsNew
  BY <1>6, SMT DEF Init, LinkedIsNew
<1> QED BY <1>2, <1>3, <1>4, <1>5, <1>7 DEF IInv

-----------------------------------------------------------------------------
(* startOp *)

LEMMA StartOpIInv ==
    ASSUME IInv, NEW a \in Thread, StartOp(a)
    PROVE  IInv'
<1>0. /\ pc[a] \in {"idle", "op", "bare"}
      /\ epoch < MaxEpoch /\ epoch' = epoch /\ pc' = [pc EXCEPT ![a] = "free"]
      /\ depth' = [depth EXCEPT ![a] = @ + 1] /\ depth[a] < MaxDepth
      /\ mine' = [mine EXCEPT ![a] = epoch]
      /\ UNCHANGED <<ann, quiet, mob, found, linked, unlinked, freed, spared, opened>>
      /\ epoch = mine[a] => UNCHANGED <<bags, index, freeable, checked>>
      /\ epoch # mine[a] => Rotate(a) /\ checked' = [checked EXCEPT ![a] = 0]
  BY DEF StartOp, StartOpWith, Goto, announced, lists, history, limbo
<1>r. PICK r \in Guards(a) : role' = [role EXCEPT ![a] = r]
  BY DEF StartOp, StartOpWith
<1>s. r \in {"none", "walk", "find", "reclaim"} /\ role[a] \in {"none", "walk"}
  BY <1>r, Zenon DEF Guards
<1>types. /\ depth' \in [Thread -> 0 .. MaxDepth]
          /\ role' \in [Thread -> {"none", "walk", "find", "reclaim"}]
          /\ mine' \in [Thread -> -1 .. MaxEpoch]
          /\ pc' \in [Thread -> {"idle", "free", "announce", "check", "advance", "op", "bare"}]
  <2>1. TypeOK
    BY DEF IInv
  <2>2. depth[a] + 1 \in 0 .. MaxDepth /\ epoch \in -1 .. MaxEpoch
    BY <1>0, Numbers, SMT
  <2> QED BY <2>1, <2>2, <1>0, <1>r, <1>s, Zenon DEF TypeOK
<1>1. /\ \A u \in Thread : u # a => /\ mine'[u] = mine[u] /\ pc'[u] = pc[u]
                                   /\ depth'[u] = depth[u] /\ role'[u] = role[u]
      /\ mine'[a] = epoch /\ pc'[a] = "free" /\ depth'[a] = depth[a] + 1
  BY <1>0, <1>r, SMT DEF IInv, TypeOK
<1>found. found[a] = {}
  BY <1>s DEF IInv, Fields
<1>2. CASE epoch = mine[a]
  <2>1. UNCHANGED <<bags, index, freeable, checked, mine>>
    BY <1>2, <1>0, SMT DEF IInv, TypeOK
  <2>2. TypeOK'
    BY <1>0, <2>1, <1>types, Zenon DEF IInv, TypeOK
  <2>3. ASSUME NEW t \in Thread PROVE Fields(t)'
    BY <1>0, <1>1, <1>2, <1>found, <2>1, Numbers, SMT DEF IInv, Fields
  <2>4. Retired' = Retired
    BY <1>0, <2>1, SameRetired
  <2>5. LinkedIsNew' /\ \A t \in Thread : Spares(t)'
    BY <1>0, <2>4, SMT DEF IInv, LinkedIsNew, Spares
  <2> QED BY <1>0, <2>1, <2>2, <2>3, <2>5, SMT DEF IInv, Unscanned, GraceBounded, Protected,
             SparedNotFreed
<1>3. CASE epoch # mine[a]
  <2> DEFINE i == index[a]
             nx == (i + 1) % NBags
  <2>1. PICK S \in SUBSET bags[a][nx] :
          /\ bags' = [bags EXCEPT ![a][nx] = @ \ S]
          /\ freeable' = [freeable EXCEPT ![a] = @ \cup S]
          /\ index' = [index EXCEPT ![a] = nx]
    <3>1. Rotate(a)
      BY <1>0, <1>3
    <3> QED BY <3>1, Zenon DEF Rotate
  <2>2. checked' = [checked EXCEPT ![a] = 0]
    BY <1>0, <1>3
  <2>3. i \in 0 .. NBags - 1 /\ nx \in 0 .. NBags - 1 /\ nx # i
          /\ (nx + 1) % NBags # i /\ (nx + 1) % NBags # nx
    BY Rotation, Numbers, SMT
  <2> HIDE DEF i, nx
  <2>4. TypeOK'
    <3>1. TypeOK /\ 0 \in 0 .. N
      BY Numbers, SMT DEF IInv
    <3>2. bags[a] \in [0 .. NBags - 1 -> SUBSET Object] /\ bags[a][nx] \in SUBSET Object
      <4>1. bags \in [Thread -> [0 .. NBags - 1 -> SUBSET Object]]
        BY <3>1 DEF TypeOK
      <4>2. bags[a] \in [0 .. NBags - 1 -> SUBSET Object]
        BY <4>1
      <4> QED BY <4>2, <2>3
    <3>3. bags[a][nx] \ S \in SUBSET Object
      BY <3>2
    <3>4. freeable[a] \cup S \in SUBSET Object
      BY <3>1, <3>2, Zenon DEF TypeOK
    <3>5. bags' \in [Thread -> [0 .. NBags - 1 -> SUBSET Object]]
      <4>1. [bags[a] EXCEPT ![nx] = @ \ S] \in [0 .. NBags - 1 -> SUBSET Object]
        BY <3>2, <3>3, Zenon
      <4>2. bags' = [bags EXCEPT ![a] = [bags[a] EXCEPT ![nx] = @ \ S]]
        BY <2>1
      <4> QED BY <4>1, <4>2, <3>1, Zenon DEF TypeOK
    <3>6. /\ freeable' \in [Thread -> SUBSET Object] /\ index' \in [Thread -> 0 .. NBags - 1]
          /\ checked' \in [Thread -> 0 .. N]
      BY <2>1, <2>2, <2>3, <3>1, <3>4, Zenon DEF TypeOK
    <3> QED BY <1>0, <1>types, <3>1, <3>5, <3>6, Zenon DEF TypeOK
  <2>5. /\ \A u \in Thread : u # a => /\ bags'[u] = bags[u] /\ index'[u] = index[u]
                                      /\ freeable'[u] = freeable[u] /\ checked'[u] = checked[u]
        /\ \A j \in 0 .. NBags - 1 : j # nx => bags'[a][j] = bags[a][j]
        /\ bags'[a][nx] = bags[a][nx] \ S /\ index'[a] = nx /\ checked'[a] = 0
        /\ freeable'[a] = freeable[a] \cup S
    <3>1. /\ bags \in [Thread -> [0 .. NBags - 1 -> SUBSET Object]]
          /\ index \in [Thread -> 0 .. NBags - 1] /\ checked \in [Thread -> 0 .. N]
          /\ freeable \in [Thread -> SUBSET Object]
      BY DEF IInv, TypeOK
    <3>2. \A u \in Thread : bags[u] \in [0 .. NBags - 1 -> SUBSET Object]
      BY <3>1
    <3>3. bags' = [bags EXCEPT ![a] = [bags[a] EXCEPT ![nx] = @ \ S]]
      BY <2>1
    <3>4. bags'[a] = [bags[a] EXCEPT ![nx] = @ \ S] /\ \A u \in Thread : u # a => bags'[u] = bags[u]
      BY <3>1, <3>3, Zenon
    <3>5. /\ \A j \in 0 .. NBags - 1 : j # nx => bags'[a][j] = bags[a][j]
          /\ bags'[a][nx] = bags[a][nx] \ S
      BY <3>2, <3>4, <2>3, Zenon
    <3>6. /\ index'[a] = nx /\ checked'[a] = 0 /\ freeable'[a] = freeable[a] \cup S
          /\ \A u \in Thread : u # a => /\ index'[u] = index[u] /\ freeable'[u] = freeable[u]
                                        /\ checked'[u] = checked[u]
      BY <2>1, <2>2, <3>1, Zenon
    <3> QED BY <3>4, <3>5, <3>6
  <2>6. ASSUME NEW t \in Thread PROVE Fields(t)'
    BY <1>0, <1>1, <1>found, <2>5, Numbers, SMT DEF IInv, Fields
  <2>7. ASSUME NEW t \in Thread, NEW u \in Thread PROVE Unscanned(t, u)'
    BY <1>0, <1>1, <2>5, Numbers, SMT DEF IInv, Unscanned
  \* The bag that comes round holds nothing that an announcement protects.
  <2>8. ASSUME NEW t \in Thread PROVE spared[t] \cap bags[a][nx] = {}
    <3> SUFFICES ASSUME NEW o \in spared[t], o \in bags[a][nx] PROVE FALSE
      OBVIOUS
    <3>1. opened[t] < mine[a]
      BY <2>3 DEF IInv, Protected, i, nx
    <3>2. epoch <= opened[t] + 1
      BY DEF IInv, Fields, GraceBounded
    <3>3. mine[a] < epoch
      BY <1>3, Numbers, SMT DEF IInv, Fields
    <3> QED BY <3>1, <3>2, <3>3, Numbers, SMT
  <2>9. ASSUME NEW t \in Thread, NEW u \in Thread PROVE Protected(t, u)'
    <3>1. CASE u # a
      BY <3>1, <1>0, <1>1, <2>5, SMT DEF IInv, Protected
    <3>2. CASE u = a
      <4>1. spared'[t] \cap freeable'[a] = {}
        BY <2>5, <2>8, <1>0, SMT DEF IInv, Protected
      <4>2. ASSUME NEW o \in spared[t], NEW j \in 0 .. NBags - 1, o \in bags'[a][j]
            PROVE  /\ j # nx => opened[t] <= epoch
                   /\ j = (nx + 1) % NBags => opened[t] < epoch
        <5>1. opened[t] <= epoch
          BY DEF IInv, Fields
        <5>2. ASSUME j = (nx + 1) % NBags PROVE opened[t] < epoch
          <6>1. j # nx /\ j # i
            BY <5>2, <2>3
          <6>2. o \in bags[a][j]
            BY <6>1, <4>2, <2>5
          <6>3. opened[t] <= mine[a]
            BY <6>1, <6>2 DEF IInv, Protected, i
          <6>4. mine[a] < epoch
            BY <1>3, Numbers, SMT DEF IInv, Fields
          <6> QED BY <6>3, <6>4, Numbers, SMT
        <5> QED BY <5>1, <5>2
      <4> QED BY <3>2, <4>1, <4>2, <1>0, <1>1, <2>5 DEF Protected
    <3> QED BY <3>1, <3>2
  <2>10. Retired' = Retired
    <3>1. ASSUME NEW o, o \in Retired PROVE o \in Retired'
      <4>1. CASE o \in freed
        BY <4>1, <1>0, InRetired
      <4>2. CASE \E u \in Thread : o \in freeable[u]
        BY <4>2, <2>5, InRetired, Zenon
      <4>3. CASE \E u \in Thread : \E j \in 0 .. NBags - 1 : o \in bags[u][j]
        <5>1. PICK u \in Thread, j \in 0 .. NBags - 1 : o \in bags[u][j]
          BY <4>3
        <5>2. o \in bags'[u][j] \/ o \in freeable'[u]
          BY <5>1, <2>5, Zenon
        <5> QED BY <5>1, <5>2, InRetired, Zenon
      <4> QED BY <3>1, <4>1, <4>2, <4>3, InRetired, Zenon
    <3>2. ASSUME NEW o, o \in Retired' PROVE o \in Retired
      <4>1. CASE o \in freed'
        BY <4>1, <1>0, InRetired
      <4>2. CASE \E u \in Thread : o \in freeable'[u]
        <5>1. PICK u \in Thread : o \in freeable'[u]
          BY <4>2
        <5>2. o \in freeable[u] \/ o \in bags[a][nx]
          BY <5>1, <2>1, <2>5, Zenon
        <5> QED BY <5>2, <2>3, InRetired, Zenon
      <4>3. CASE \E u \in Thread : \E j \in 0 .. NBags - 1 : o \in bags'[u][j]
        <5>1. PICK u \in Thread, j \in 0 .. NBags - 1 : o \in bags'[u][j]
          BY <4>3
        <5>2. o \in bags[u][j]
          BY <5>1, <2>5, Zenon
        <5> QED BY <5>2, InRetired, Zenon
      <4> QED BY <3>2, <4>1, <4>2, <4>3, InRetired, Zenon
    <3> QED BY <3>1, <3>2
  <2>11. LinkedIsNew' /\ \A t \in Thread : Spares(t)'
    BY <1>0, <2>10, SMT DEF IInv, LinkedIsNew, Spares
  <2> QED BY <1>0, <2>4, <2>6, <2>7, <2>9, <2>11, SMT DEF IInv, GraceBounded, SparedNotFreed
<1> QED BY <1>2, <1>3

LEMMA FreeIInv ==
    ASSUME IInv, NEW a \in Thread, Free(a)
    PROVE  IInv'
<1>0. /\ pc[a] = "free" /\ pc' = [pc EXCEPT ![a] = "announce"]
      /\ UNCHANGED <<epoch, checked, ann, quiet, mine, bags, index, depth, role, mob, found,
                      linked, unlinked, spared, opened>>
      /\ \/ UNCHANGED <<freeable, freed>>
         \/ \E o \in freeable[a] : /\ freeable' = [freeable EXCEPT ![a] = @ \ {o}]
                                   /\ freed' = freed \cup {o}
  BY DEF Free, Goto, scan, announced, guards, lists, history
<1>1. /\ freeable' \in [Thread -> SUBSET Object] /\ freed' \in SUBSET Object
      /\ \A u \in Thread : freeable'[u] \subseteq freeable[u]
      /\ \A o \in freed' : o \in freed \/ o \in freeable[a]
  <2>1. freeable \in [Thread -> SUBSET Object] /\ freed \in SUBSET Object
    BY DEF IInv, TypeOK
  <2> QED BY <1>0, <2>1, SMT
<1>2. TypeOK'
  BY <1>0, <1>1, Zenon DEF IInv, TypeOK
<1>3. ASSUME NEW t \in Thread PROVE Fields(t)'
  BY <1>0, SMT DEF IInv, Fields, TypeOK
<1>4. ASSUME NEW t \in Thread, NEW u \in Thread PROVE Unscanned(t, u)' /\ Protected(t, u)'
  BY <1>0, <1>1, SMT DEF IInv, Unscanned, Protected
<1>5. SparedNotFreed'
  BY <1>0, <1>1, SMT DEF IInv, SparedNotFreed, Protected
<1>6. Retired' = Retired
  <2>1. /\ freed \subseteq freed'
        /\ \A u \in Thread : \A o \in freeable[u] : o \in freeable'[u] \/ o \in freed'
    <3>1. freeable \in [Thread -> SUBSET Object]
      BY DEF IInv, TypeOK
    <3> QED BY <1>0, <3>1, SMT
  <2> QED BY <1>0, <1>1, <2>1, InRetired, Zenon
<1>7. LinkedIsNew' /\ \A t \in Thread : Spares(t)'
  BY <1>0, <1>6, SMT DEF IInv, LinkedIsNew, Spares
<1> QED BY <1>0, <1>2, <1>3, <1>4, <1>5, <1>7, SMT DEF IInv, GraceBounded

LEMMA AnnounceIInv ==
    ASSUME IInv, NEW a \in Thread, Announce(a)
    PROVE  IInv'
<1>0. /\ pc[a] = "announce"
      /\ ann' = [ann EXCEPT ![a] = mine[a]] /\ quiet' = [quiet EXCEPT ![a] = FALSE]
      /\ spared' = [spared EXCEPT ![a] = Object \ Retired]
      /\ opened' = [opened EXCEPT ![a] = epoch]
      /\ UNCHANGED <<epoch, checked, mine, bags, index, freeable, depth, role, mob, found,
                      linked, unlinked, freed>>
  BY DEF Announce, scan, limbo, guards, lists
<1>1. PICK step \in {"check", "op"} : pc' = [pc EXCEPT ![a] = step]
  BY DEF Announce, Goto
<1>2. mine[a] \in 0 .. MaxEpoch
  BY <1>0, Numbers, SMT DEF IInv, Fields
<1>types. /\ ann' \in [Thread -> 0 .. MaxEpoch] /\ quiet' \in [Thread -> BOOLEAN]
          /\ spared' \in [Thread -> SUBSET Object] /\ opened' \in [Thread -> 0 .. MaxEpoch]
          /\ pc' \in [Thread -> {"idle", "free", "announce", "check", "advance", "op", "bare"}]
  <2>1. Object \ Retired \in SUBSET Object /\ step \in {"check", "op"}
    OBVIOUS
  <2> QED BY <1>0, <1>1, <1>2, <2>1, Zenon DEF IInv, TypeOK
<1>3. TypeOK'
  BY <1>0, <1>types, Zenon DEF IInv, TypeOK
<1>values. /\ ann'[a] = mine[a] /\ ~quiet'[a] /\ opened'[a] = epoch /\ pc'[a] = step
           /\ spared'[a] = Object \ Retired
           /\ \A u \in Thread : u # a => /\ ann'[u] = ann[u] /\ (quiet'[u] <=> quiet[u])
                                         /\ spared'[u] = spared[u] /\ opened'[u] = opened[u]
                                         /\ pc'[u] = pc[u]
  BY <1>0, <1>1, Zenon DEF IInv, TypeOK
<1>found. found[a] = {}
  BY <1>0 DEF IInv, Fields
<1>4. ASSUME NEW t \in Thread PROVE Fields(t)'
  BY <1>0, <1>1, <1>2, <1>values, <1>found, Numbers, SMT DEF IInv, Fields
\* What is not retired is in no bag and on no free list.
<1>new. ASSUME NEW o \in Object \ Retired, NEW u \in Thread
        PROVE  o \notin freed /\ o \notin freeable[u] /\ \A i \in 0 .. NBags - 1 : o \notin bags[u][i]
  BY InRetired, Zenon
<1>5. ASSUME NEW t \in Thread, NEW u \in Thread PROVE Unscanned(t, u)' /\ Protected(t, u)'
  <2>1. CASE t = a
    <3>1. mine[u] <= epoch
      BY DEF IInv, Fields
    <3>2. Unscanned(t, u)'
      BY <2>1, <3>1, <1>values, <1>0, Numbers, SMT DEF Unscanned
    <3>3. Protected(t, u)'
      BY <2>1, <1>values, <1>0, <1>new, Zenon DEF Protected
    <3> QED BY <3>2, <3>3
  <2>2. CASE t # a
    BY <2>2, <1>0, <1>values, SMT DEF IInv, Unscanned, Protected
  <2> QED BY <2>1, <2>2
<1>6. GraceBounded'
  BY <1>0, Numbers, SMT DEF IInv, TypeOK, GraceBounded
<1>7. Retired' = Retired
  BY <1>0, SameRetired
<1>8. LinkedIsNew'
  BY <1>0, <1>7 DEF IInv, LinkedIsNew
<1>9. ASSUME NEW t \in Thread PROVE Spares(t)' /\ spared'[t] \cap freed' = {}
  <2>1. CASE t = a
    <3>1. freed' \subseteq Retired
      BY <1>0, InRetired
    <3> QED BY <2>1, <3>1, <1>0, <1>values, <1>found, <1>7, SMT DEF Spares
  <2>2. CASE t # a
    BY <2>2, <1>0, <1>values, <1>7 DEF IInv, Spares, SparedNotFreed
  <2> QED BY <2>1, <2>2
<1> QED BY <1>3, <1>4, <1>5, <1>6, <1>8, <1>9 DEF IInv, SparedNotFreed

LEMMA CheckIInv ==
    ASSUME IInv, NEW a \in Thread, Check(a)
    PROVE  IInv'
<1> DEFINE c == checked[a]
           passed == ann[c] = mine[a] \/ quiet[c]
<1>0. /\ pc[a] = "check"
      /\ checked' = [checked EXCEPT ![a] = IF passed THEN @ + 1 ELSE @]
      /\ pc' = [pc EXCEPT ![a] = IF checked'[a] >= N THEN "advance" ELSE "op"]
      /\ UNCHANGED <<epoch, ann, quiet, mine, bags, index, freeable, depth, role, mob, found,
                      linked, unlinked, freed, spared, opened>>
  BY DEF Check, CheckIf, Goto, announced, limbo, guards, lists, history
<1>1. c \in Nat /\ c < N /\ c \in Thread
  BY <1>0, Numbers, SMT DEF IInv, Fields, Thread
<1>2. /\ checked'[a] = (IF passed THEN c + 1 ELSE c)
      /\ \A u \in Thread : u # a => checked'[u] = checked[u] /\ pc'[u] = pc[u]
      /\ pc'[a] = IF checked'[a] >= N THEN "advance" ELSE "op"
  BY <1>0, SMT DEF IInv, TypeOK
<1> HIDE DEF c, passed
<1>3. checked'[a] \in 0 .. N
  BY <1>1, <1>2, Numbers, SMT
<1>4. TypeOK'
  BY <1>0, <1>2, <1>3, SMT DEF IInv, TypeOK
<1>5. ASSUME NEW t \in Thread PROVE Fields(t)'
  BY <1>0, <1>2, <1>3, Numbers, SMT DEF IInv, Fields
\* A look at t fails if t is not quiescent and announced an earlier epoch.
<1>6. ASSUME NEW t \in Thread, NEW u \in Thread PROVE Unscanned(t, u)'
  <2>1. CASE u = a /\ t = c /\ passed
    <3> SUFFICES ASSUME ~quiet[t], opened[t] < mine[a] PROVE FALSE
      BY <2>1, <1>0 DEF Unscanned
    <3>1. ann[t] <= opened[t]
      BY DEF IInv, Fields
    <3>2. ann[t] = mine[a]
      BY <2>1 DEF passed
    <3> QED BY <3>1, <3>2, Numbers, SMT
  <2>2. CASE u = a /\ ~(t = c /\ passed)
    BY <2>2, <1>0, <1>1, <1>2, Numbers, SMT DEF IInv, Unscanned, c
  <2>3. CASE u # a
    BY <2>3, <1>0, <1>2, SMT DEF IInv, Unscanned
  <2> QED BY <2>1, <2>2, <2>3
<1>7. LinkedIsNew' /\ \A t \in Thread : Spares(t)'
  BY <1>0, SameRetired DEF IInv, LinkedIsNew, Spares
<1> QED BY <1>0, <1>4, <1>5, <1>6, <1>7, SMT DEF IInv, Protected, GraceBounded, SparedNotFreed

LEMMA AdvanceIInv ==
    ASSUME IInv, NEW a \in Thread, Advance(a)
    PROVE  IInv'
<1>0. /\ pc[a] = "advance" /\ pc' = [pc EXCEPT ![a] = "op"]
      /\ epoch' = IF epoch = mine[a] THEN epoch + 1 ELSE epoch
      /\ UNCHANGED <<checked, ann, quiet, mine, bags, index, freeable, depth, role, mob, found,
                      linked, unlinked, freed, spared, opened>>
  BY DEF Advance, AdvanceTo, Goto, announced, limbo, guards, lists, history
<1>1. mine[a] < MaxEpoch /\ mine[a] <= epoch /\ checked[a] = N /\ mine[a] < epoch'
  BY <1>0, Numbers, SMT DEF IInv, Fields
<1>2. epoch' \in 0 .. MaxEpoch /\ epoch <= epoch'
  BY <1>0, <1>1, Numbers, SMT DEF IInv, TypeOK
<1>3. TypeOK'
  BY <1>0, <1>2, SMT DEF IInv, TypeOK
<1>4. ASSUME NEW t \in Thread PROVE Fields(t)'
  <2>1. pc'[a] = "op" /\ \A u \in Thread : u # a => pc'[u] = pc[u]
    BY <1>0, Zenon DEF IInv, TypeOK
  <2> QED BY <1>0, <1>1, <1>2, <2>1, Numbers, SMT DEF IInv, Fields
<1>5. GraceBounded'
  <2> SUFFICES ASSUME NEW t \in Thread, ~quiet[t] PROVE epoch' <= opened[t] + 1
    BY <1>0 DEF GraceBounded
  <2>1. ~(checked[a] <= t)
    BY <1>1, Numbers, SMT
  <2>2. ~(opened[t] < mine[a])
    BY <2>1 DEF IInv, Unscanned
  <2>3. epoch <= opened[t] + 1
    BY DEF IInv, GraceBounded
  <2> QED BY <1>0, <2>2, <2>3, Numbers, SMT
<1>6. LinkedIsNew' /\ \A t \in Thread : Spares(t)'
  BY <1>0, SameRetired DEF IInv, LinkedIsNew, Spares
<1> QED BY <1>0, <1>3, <1>4, <1>5, <1>6, SMT DEF IInv, Unscanned, Protected, SparedNotFreed
-----------------------------------------------------------------------------
(* Lists and their nodes *)

LEMMA LoadIInv ==
    ASSUME IInv, NEW a \in Thread, Load(a)
    PROVE  IInv'
<1>0. UNCHANGED <<epoch, checked, ann, quiet, mine, bags, index, freeable, pc, depth, role, found,
                  linked, unlinked, freed, spared, opened>>
  BY DEF Load, scan, announced, limbo, guards, lists, history
<1>1. PICK l \in linked \cup {{}} : mob' = [mob EXCEPT ![a] = l]
  BY DEF Load
<1>2. l \in SUBSET Object
  BY DebraAssumption DEF IInv, TypeOK
<1>3. TypeOK'
  BY <1>0, <1>1, <1>2, Zenon DEF IInv, TypeOK
<1>4. ASSUME NEW t \in Thread PROVE Fields(t)'
  BY <1>0 DEF IInv, Fields
<1>5. ASSUME NEW t \in Thread, NEW u \in Thread PROVE Unscanned(t, u)' /\ Protected(t, u)'
  BY <1>0 DEF IInv, Unscanned, Protected
<1>6. LinkedIsNew' /\ \A t \in Thread : Spares(t)'
  BY <1>0, SameRetired DEF IInv, LinkedIsNew, Spares
<1> QED BY <1>0, <1>3, <1>4, <1>5, <1>6 DEF IInv, GraceBounded, SparedNotFreed

LEMMA FindIInv ==
    ASSUME IInv, NEW a \in Thread, Find(a)
    PROVE  IInv'
<1>0. /\ pc[a] = "op" /\ role[a] = "find" /\ mob[a] \in linked
      /\ found' = [found EXCEPT ![a] = mob[a]]
      /\ UNCHANGED <<epoch, checked, ann, quiet, mine, bags, index, freeable, pc, depth, role, mob,
                      linked, unlinked, freed, spared, opened>>
  BY DEF Find, FindIn, scan, announced, limbo, guards, lists, history
<1>1. /\ found' \in [Thread -> SUBSET Object]
      /\ found'[a] = mob[a] /\ \A t \in Thread : t # a => found'[t] = found[t]
  BY <1>0, Zenon DEF IInv, TypeOK
<1>2. TypeOK'
  BY <1>0, <1>1, Zenon DEF IInv, TypeOK
<1>3. ASSUME NEW t \in Thread PROVE Fields(t)'
  BY <1>0, <1>1, SMT DEF IInv, Fields
<1>4. ASSUME NEW t \in Thread, NEW u \in Thread PROVE Unscanned(t, u)' /\ Protected(t, u)'
  BY <1>0 DEF IInv, Unscanned, Protected
\* The nodes were not retired when find announced, because they are not retired now.
<1>5. mob[a] \subseteq spared[a]
  <2>1. mob[a] \subseteq Object \ Retired
    BY <1>0 DEF IInv, TypeOK, LinkedIsNew
  <2>2. ~quiet[a]
    BY <1>0 DEF IInv, Fields
  <2> QED BY <2>1, <2>2 DEF IInv, Spares
<1>6. ASSUME NEW t \in Thread PROVE Spares(t)'
  BY <1>0, <1>1, <1>5, SameRetired, SMT DEF IInv, Spares
<1>7. LinkedIsNew'
  BY <1>0, SameRetired DEF IInv, LinkedIsNew
<1> QED BY <1>0, <1>2, <1>3, <1>4, <1>6, <1>7 DEF IInv, GraceBounded, SparedNotFreed

LEMMA SwapIInv ==
    ASSUME IInv, NEW a \in Thread, Swap(a)
    PROVE  IInv'
<1>0. /\ mob[a] \in linked /\ linked' = linked \ {mob[a]}
      /\ unlinked' = [unlinked EXCEPT ![a] = mob[a]] /\ mob' = [mob EXCEPT ![a] = {}]
      /\ UNCHANGED <<epoch, checked, ann, quiet, mine, bags, index, freeable, pc, depth, role, found,
                      freed, spared, opened>>
  BY DEF Swap, scan, announced, limbo, guards, history
<1>1. TypeOK'
  <2>1. mob[a] \in SUBSET Object /\ {} \in SUBSET Object /\ linked' \in SUBSET List
    BY <1>0 DEF IInv, TypeOK
  <2> QED BY <1>0, <2>1, Zenon DEF IInv, TypeOK
<1>2. ASSUME NEW t \in Thread PROVE Fields(t)'
  BY <1>0 DEF IInv, Fields
<1>3. ASSUME NEW t \in Thread, NEW u \in Thread PROVE Unscanned(t, u)' /\ Protected(t, u)'
  BY <1>0 DEF IInv, Unscanned, Protected
<1>4. ASSUME NEW t \in Thread PROVE Spares(t)'
  BY <1>0, SameRetired DEF IInv, Spares
\* The lists that stay have no node in common with the one that goes.
<1>5. LinkedIsNew'
  <2> SUFFICES ASSUME NEW l \in linked'
               PROVE  l \cap Retired' = {} /\ \A u \in Thread : l \cap unlinked'[u] = {}
    BY DEF LinkedIsNew
  <2>1. l \in linked /\ l # mob[a]
    BY <1>0
  <2>2. l \cap mob[a] = {}
    BY <1>0, <2>1, DebraAssumption DEF IInv, TypeOK
  <2>3. /\ unlinked'[a] = mob[a]
        /\ \A u \in Thread : u # a => unlinked'[u] = unlinked[u]
    BY <1>0, Zenon DEF IInv, TypeOK
  <2> QED BY <1>0, <2>1, <2>2, <2>3, SameRetired DEF IInv, LinkedIsNew
<1> QED BY <1>0, <1>1, <1>2, <1>3, <1>4, <1>5 DEF IInv, GraceBounded, SparedNotFreed

LEMMA retireIInv ==
    ASSUME IInv, NEW a \in Thread, NEW o \in Object, retire(a, o)
    PROVE  IInv'
<1> DEFINE i == index[a]
<1>0. /\ o \in unlinked[a] /\ unlinked' = [unlinked EXCEPT ![a] = @ \ {o}]
      /\ bags' = [bags EXCEPT ![a] = [bags[a] EXCEPT ![i] = @ \cup {o}]]
      /\ UNCHANGED <<epoch, checked, ann, quiet, mine, index, freeable, pc, depth, role, mob,
                      found, linked, freed, spared, opened>>
  BY DEF retire, scan, announced, guards, history
<1>1. i \in 0 .. NBags - 1 /\ i # (i + 1) % NBags
  BY Numbers, Rotation
<1> HIDE DEF i
<1>2. /\ bags \in [Thread -> [0 .. NBags - 1 -> SUBSET Object]]
      /\ unlinked \in [Thread -> SUBSET Object]
  BY DEF IInv, TypeOK
<1>3. bags[a] \in [0 .. NBags - 1 -> SUBSET Object]
  BY <1>2
<1>4. [bags[a] EXCEPT ![i] = @ \cup {o}] \in [0 .. NBags - 1 -> SUBSET Object]
  <2>1. bags[a][i] \cup {o} \in SUBSET Object
    BY <1>1, <1>3
  <2> QED BY <1>3, <2>1, Zenon
<1>5. /\ bags' \in [Thread -> [0 .. NBags - 1 -> SUBSET Object]]
      /\ bags'[a] = [bags[a] EXCEPT ![i] = @ \cup {o}]
      /\ \A u \in Thread : u # a => bags'[u] = bags[u]
  BY <1>0, <1>2, <1>4, Zenon
<1>6. /\ bags'[a][i] = bags[a][i] \cup {o}
      /\ \A j \in 0 .. NBags - 1 : j # i => bags'[a][j] = bags[a][j]
  BY <1>1, <1>3, <1>5, Zenon
<1>7. /\ unlinked' \in [Thread -> SUBSET Object]
      /\ \A u \in Thread : unlinked'[u] \subseteq unlinked[u]
  <2>1. unlinked[a] \ {o} \in SUBSET Object
    BY <1>2
  <2> QED BY <1>0, <1>2, <2>1, SMT
<1>8. TypeOK'
  BY <1>0, <1>5, <1>7, Zenon DEF IInv, TypeOK
<1>9. ASSUME NEW t \in Thread PROVE Fields(t)'
  BY <1>0 DEF IInv, Fields
<1>10. ASSUME NEW t \in Thread, NEW u \in Thread PROVE Unscanned(t, u)'
  BY <1>0 DEF IInv, Unscanned
<1>11. ASSUME NEW t \in Thread, NEW u \in Thread PROVE Protected(t, u)'
  <2>1. CASE u = a
    BY <2>1, <1>0, <1>1, <1>6, SMT DEF IInv, Protected, i
  <2>2. CASE u # a
    BY <2>2, <1>0, <1>5, SMT DEF IInv, Protected
  <2> QED BY <2>1, <2>2
<1>12. Retired' = Retired \cup {o}
  <2>1. ASSUME NEW x, NEW u \in Thread, NEW j \in 0 .. NBags - 1
        PROVE  x \in bags'[u][j] <=> x \in bags[u][j] \/ (x = o /\ u = a /\ j = i)
    BY <1>5, <1>6, Zenon
  <2> QED BY <1>0, <1>1, <2>1, InRetired, Zenon
<1>13. ASSUME NEW t \in Thread PROVE Spares(t)'
  BY <1>0, <1>12, SMT DEF IInv, Spares
<1>14. LinkedIsNew'
  <2> SUFFICES ASSUME NEW l \in linked
               PROVE  l \cap Retired' = {} /\ \A u \in Thread : l \cap unlinked'[u] = {}
    BY <1>0 DEF LinkedIsNew
  <2>1. o \notin l
    BY <1>0 DEF IInv, LinkedIsNew
  <2> QED BY <2>1, <1>7, <1>12 DEF IInv, LinkedIsNew
<1> QED BY <1>0, <1>8, <1>9, <1>10, <1>11, <1>13, <1>14 DEF IInv, GraceBounded, SparedNotFreed

LEMMA EndOpIInv ==
    ASSUME IInv, NEW a \in Thread, EndOp(a)
    PROVE  IInv'
<1> DEFINE to == IF depth[a] = 1 THEN "idle" ELSE "bare"
           outer == IF depth[a] = 1 THEN "none" ELSE "walk"
<1>0. /\ pc[a] \in {"op", "bare"}
      /\ ann' = [ann EXCEPT ![a] = mine[a]] /\ quiet' = [quiet EXCEPT ![a] = TRUE]
      /\ depth' = [depth EXCEPT ![a] = @ - 1]
      /\ role' = [role EXCEPT ![a] = outer] /\ found' = [found EXCEPT ![a] = {}]
      /\ spared' = [spared EXCEPT ![a] = {}] /\ opened' = [opened EXCEPT ![a] = 0]
      /\ pc' = [pc EXCEPT ![a] = to]
      /\ UNCHANGED <<epoch, checked, mine, bags, index, freeable, mob, linked, unlinked, freed>>
  BY DEF EndOp, Goto, scan, limbo, lists
<1>1. to \in {"idle", "bare"} /\ (to = "bare" => depth[a] # 1) /\ outer \in {"none", "walk"}
  OBVIOUS
<1> HIDE DEF to, outer
<1>2. /\ mine[a] \in 0 .. MaxEpoch /\ depth[a] - 1 \in 0 .. MaxDepth /\ 0 \in 0 .. MaxEpoch
      /\ depth[a] >= 1
  <2>1. depth[a] \in 0 .. MaxDepth
    BY DEF IInv, TypeOK
  <2> QED BY <1>0, <2>1, Numbers, SMT DEF IInv, Fields
<1>3. /\ ann' \in [Thread -> 0 .. MaxEpoch] /\ quiet' \in [Thread -> BOOLEAN]
      /\ depth' \in [Thread -> 0 .. MaxDepth] /\ spared' \in [Thread -> SUBSET Object]
      /\ role' \in [Thread -> {"none", "walk", "find", "reclaim"}]
      /\ found' \in [Thread -> SUBSET Object]
      /\ opened' \in [Thread -> 0 .. MaxEpoch]
      /\ pc' \in [Thread -> {"idle", "free", "announce", "check", "advance", "op", "bare"}]
  BY <1>0, <1>1, <1>2, Zenon DEF IInv, TypeOK
<1>4. TypeOK'
  BY <1>0, <1>3, Zenon DEF IInv, TypeOK
<1>5. /\ quiet'[a] /\ spared'[a] = {} /\ opened'[a] = 0 /\ pc'[a] = to /\ depth'[a] = depth[a] - 1
      /\ found'[a] = {}
      /\ \A u \in Thread : u # a => /\ ann'[u] = ann[u] /\ (quiet'[u] <=> quiet[u])
                                    /\ spared'[u] = spared[u] /\ opened'[u] = opened[u]
                                    /\ pc'[u] = pc[u] /\ depth'[u] = depth[u]
                                    /\ role'[u] = role[u] /\ found'[u] = found[u]
  BY <1>0, Zenon DEF IInv, TypeOK
<1>6. ASSUME NEW t \in Thread PROVE Fields(t)'
  BY <1>0, <1>1, <1>2, <1>5, Numbers, SMT DEF IInv, Fields
<1>7. ASSUME NEW t \in Thread, NEW u \in Thread PROVE Unscanned(t, u)' /\ Protected(t, u)'
  BY <1>0, <1>5, SMT DEF IInv, Unscanned, Protected
<1>8. GraceBounded' /\ SparedNotFreed'
  BY <1>0, <1>5, SMT DEF IInv, GraceBounded, SparedNotFreed
<1>9. Retired' = Retired
  BY <1>0, SameRetired
<1>10. LinkedIsNew' /\ \A t \in Thread : Spares(t)'
  BY <1>0, <1>5, <1>9, SMT DEF IInv, LinkedIsNew, Spares
<1> QED BY <1>4, <1>6, <1>7, <1>8, <1>10 DEF IInv

-----------------------------------------------------------------------------
(* Every step, and the theorems *)

LEMMA StutterIInv ==
    ASSUME IInv, UNCHANGED vars
    PROVE  IInv'
<1>0. UNCHANGED <<epoch, checked, ann, quiet, mine, bags, index, freeable, pc, depth, role, mob, found,
                  linked, unlinked, freed, spared, opened>>
  BY DEF vars, scan, announced, limbo, guards, lists, history
<1>1. TypeOK'
  BY <1>0 DEF IInv, TypeOK
<1>2. ASSUME NEW t \in Thread PROVE Fields(t)'
  BY <1>0 DEF IInv, Fields
<1>3. ASSUME NEW t \in Thread, NEW u \in Thread PROVE Unscanned(t, u)' /\ Protected(t, u)'
  BY <1>0 DEF IInv, Unscanned, Protected
<1>4. GraceBounded' /\ SparedNotFreed'
  BY <1>0 DEF IInv, GraceBounded, SparedNotFreed
<1>5. LinkedIsNew' /\ \A t \in Thread : Spares(t)'
  BY <1>0, SameRetired DEF IInv, LinkedIsNew, Spares
<1> QED BY <1>1, <1>2, <1>3, <1>4, <1>5 DEF IInv

LEMMA Invariance == Spec => []IInv
<1>1. ASSUME IInv, [Next]_vars PROVE IInv'
  <2>1. CASE UNCHANGED vars
    BY <1>1, <2>1, StutterIInv
  <2>2. CASE Next
    <3>1. PICK a \in Thread :
            \/ StartOp(a) \/ Free(a) \/ Announce(a) \/ Check(a) \/ Advance(a) \/ EndOp(a)
            \/ Load(a) \/ Find(a) \/ Swap(a)
            \/ \E o \in Object : retire(a, o)
      BY <2>2 DEF Next
    <3> QED BY <1>1, <3>1, StartOpIInv, FreeIInv, AnnounceIInv, CheckIInv, AdvanceIInv, EndOpIInv,
               LoadIInv, FindIInv, SwapIInv, retireIInv
  <2> QED BY <1>1, <2>1, <2>2
<1> QED BY InitIInv, <1>1, PTL DEF Spec

\* The variables keep their types; in particular the current bag is one of the three and
\* checked counts the threads.
THEOREM TypeCorrect == Spec => []TypeOK
<1>1. IInv => TypeOK
  BY DEF IInv
<1> QED BY <1>1, Invariance, PTL

\* startOp looks at the announcements of existing threads only, however the epoch moves
\* between its calls.
THEOREM ScanSafe == Spec => []ScanInBounds
<1>1. IInv => ScanInBounds
  BY DEF IInv, Fields, ScanInBounds
<1> QED BY <1>1, Invariance, PTL

\* The epoch advances at most once while a thread works under its announcement.
THEOREM Grace == Spec => []GraceBounded
<1>1. IInv => GraceBounded
  BY DEF IInv
<1> QED BY <1>1, Invariance, PTL

\* rotateEpochBags and the deamortized free give back nothing that was not retired at
\* the announcement of a thread, until the thread is quiescent or announces again.
THEOREM SparedSafe == Spec => []SparedNotFreed
<1>1. IInv => SparedNotFreed
  BY DEF IInv
<1> QED BY <1>1, Invariance, PTL

\* find never reads a freed node; where another function may, the node was retired
\* before the thread announced, or the thread has ended a guard and is quiescent.
THEOREM FindSafe == Spec => []FreedReadsExplained
<1>1. IInv => FreedReadsExplained
  <2> SUFFICES ASSUME IInv, NEW t \in Thread, NEW o \in MayRead(t) \cap freed
               PROVE  role[t] # "find" /\ o \notin spared[t]
    BY DEF FreedReadsExplained
  <2>1. o \notin spared[t]
    BY DEF IInv, SparedNotFreed
  <2>2. found[t] \subseteq spared[t]
    BY DEF IInv, Spares
  <2>3. role[t] # "find"
    BY <2>1, <2>2 DEF MayRead
  <2> QED BY <2>1, <2>3
<1> QED BY <1>1, Invariance, PTL

=============================================================================
