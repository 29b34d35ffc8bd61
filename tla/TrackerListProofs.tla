-------------------------- MODULE TrackerListProofs --------------------------
(***************************************************************************)
(* Proofs, for any set of threads and any bound on the nodes, of the       *)
(* safety properties of TrackerList and of its refinement of VersionClock. *)
(*                                                                         *)
(* The argument: because a node is only ever linked behind the node that   *)
(* the tail points at, the list is the chain 0, 1, 2, ... and the tail is  *)
(* its last node or the one before.  So a thread that linked a node and    *)
(* finds the tail moved knows that it was moved at least to its own node.  *)
(***************************************************************************)
EXTENDS TrackerList, TLAPS

-----------------------------------------------------------------------------
(* The inductive invariant *)

\* The list is a chain in the order of linking, and timestamps count the nodes.
Chain ==
    /\ \A n \in NodeId : n < fresh => ts[n] = n
    /\ \A n \in NodeId : next[n] = IF n + 1 < fresh THEN n + 1 ELSE Sentinel

\* The tail is the last node or its predecessor; in the latter case the thread
\* that linked the last node has not executed its second compare-and-swap.
TailPosition ==
    /\ tail < fresh
    /\ fresh <= tail + 2
    /\ tail + 1 < fresh => \E t \in Thread : pc[t] = "swing" /\ mine[t] = tail + 1

\* Node 0 is never finished, hence it stays at the head for ever.
HeadStays == head = 0 /\ finish[0] = FALSE

\* What the locals of t say about the list.
Locals(t) ==
    /\ cur[t] <= tail
    /\ pc[t] = "swing" => mine[t] = cur[t] + 1 /\ mine[t] < fresh
    /\ pc[t] = "active" => 1 <= mine[t] /\ mine[t] <= tail
    /\ pc[t] = "helpSwing" => cur[t] + 1 < fresh
    /\ pc[t] = "checkHead" => cur[t] = 0

\* The threads that own a node; no two own the same.
Owner(t) == pc[t] \in {"swing", "active"}

Owners == \A t, u \in Thread : t # u /\ Owner(t) /\ Owner(u) => mine[t] # mine[u]

IInv == TypeOK /\ Chain /\ TailPosition /\ HeadStays /\ (\A t \in Thread : Locals(t)) /\ Owners

-----------------------------------------------------------------------------
(* Initial states and the steps of Next *)

\* The constructor establishes the invariant.
LEMMA InitIInv == Init => IInv
BY MaxNodeAssumption
   DEF Init, IInv, TypeOK, Chain, TailPosition, HeadStays, Locals, Owners, Owner,
       NodeId, Sentinel, PC

\* The integers of the state.
LEMMA Numbers ==
    ASSUME IInv
    PROVE  /\ fresh \in Nat /\ tail \in Nat
           /\ \A t \in Thread : cur[t] \in Nat /\ mine[t] \in Nat
BY MaxNodeAssumption DEF IInv, TypeOK, NodeId

\* A node without a successor that a thread loaded from the tail is the tail
\* and the last node: this is what the first compare-and-swap relies on.
LEMMA LoadedLast ==
    ASSUME IInv, NEW t \in Thread, next[cur[t]] = Sentinel
    PROVE  cur[t] = tail /\ fresh = tail + 1
BY MaxNodeAssumption
   DEF IInv, TypeOK, Chain, TailPosition, Locals, NodeId, Sentinel

\* Calls and loads change only the locals of one thread.
LEMMA LocalSteps ==
    ASSUME IInv, NEW t \in Thread,
           \/ Begin(t) \/ LoadTail(t) \/ LinkFail(t) \/ HelpLoad(t)
           \/ HelpCheck(t) \/ CallRemoveHead(t) \/ LoadHead(t)
    PROVE  IInv'
<1> USE MaxNodeAssumption DEF list, Goto
<1>1. /\ UNCHANGED <<ts, next, finish, head, tail, fresh, mine, oldest>>
      /\ pc' = [pc EXCEPT ![t] = pc'[t]]
      /\ pc'[t] \in PC \ {"swing", "active"}
      /\ ~ Owner(t)
      /\ cur' = [cur EXCEPT ![t] = cur'[t]]
      /\ cur'[t] \in {cur[t], tail, head}
      /\ pc'[t] = "helpSwing" => cur'[t] = cur[t] /\ next[cur[t]] # Sentinel
      /\ pc'[t] = "checkHead" => cur'[t] = head
  BY DEF Begin, LoadTail, LinkFail, HelpLoad, HelpCheck, CallRemoveHead, LoadHead,
         IInv, TypeOK, Owner, PC
<1>2. TypeOK'
  BY <1>1 DEF IInv, TypeOK
<1>3. Chain' /\ HeadStays'
  BY <1>1 DEF IInv, Chain, HeadStays
<1>4. TailPosition'
  BY <1>1 DEF IInv, TypeOK, TailPosition, Owner
<1>5. \A u \in Thread : Locals(u)'
  <2> TAKE u \in Thread
  <2>1. CASE u = t
    BY <1>1, <2>1 DEF IInv, TypeOK, Chain, TailPosition, HeadStays, Locals, NodeId, Sentinel, PC
  <2>2. CASE u # t
    BY <1>1, <2>2 DEF IInv, TypeOK, Locals
  <2> QED BY <2>1, <2>2
<1>6. Owners'
  BY <1>1 DEF IInv, TypeOK, Owners, Owner
<1> QED BY <1>2, <1>3, <1>4, <1>5, <1>6 DEF IInv

\* Linking appends node fresh to the chain.
LEMMA LinkStep ==
    ASSUME IInv, NEW t \in Thread, LinkNew(t)
    PROVE  IInv'
<1> USE MaxNodeAssumption
<1>1. cur[t] = tail /\ fresh = tail + 1
  BY LoadedLast DEF LinkNew
<1>2. /\ pc' = [pc EXCEPT ![t] = "swing"]
      /\ pc[t] = "link"
      /\ fresh <= MaxNode
      /\ ts' = [ts EXCEPT ![fresh] = ts[tail] + 1]
      /\ next' = [next EXCEPT ![tail] = fresh]
      /\ mine' = [mine EXCEPT ![t] = fresh]
      /\ fresh' = fresh + 1
      /\ UNCHANGED <<finish, head, tail, cur, oldest>>
  BY <1>1 DEF LinkNew, LinkWith, Goto
<1>3. TypeOK'
  BY SMTT(60), <1>2 DEF IInv, TypeOK, NodeId, PC
<1>4. Chain'
  BY <1>1, <1>2 DEF IInv, TypeOK, Chain, NodeId, Sentinel
<1>5. TailPosition' /\ HeadStays'
  BY <1>1, <1>2 DEF IInv, TypeOK, TailPosition, HeadStays, NodeId
<1>6. \A u \in Thread : Locals(u)'
  <2> TAKE u \in Thread
  <2>1. CASE u = t
    BY <1>1, <1>2, <2>1 DEF IInv, TypeOK, Locals, NodeId
  <2>2. CASE u # t
    <3>1. UNCHANGED <<tail, pc[u], mine[u], cur[u]>>
      BY <1>2, <2>2 DEF IInv, TypeOK
    <3> QED BY <1>2, <3>1, Numbers DEF IInv, Locals
  <2> QED BY <2>1, <2>2
<1>7. Owners'
  <2> SUFFICES ASSUME NEW u \in Thread, NEW w \in Thread, u # w, Owner(u)', Owner(w)'
               PROVE  mine'[u] # mine'[w]
    BY DEF Owners
  <2>1. ASSUME NEW x \in Thread, x # t, Owner(x)'
        PROVE  Owner(x) /\ mine'[x] = mine[x] /\ mine[x] < fresh
    <3>1. UNCHANGED <<pc[x], mine[x]>>
      BY <1>2, <2>1 DEF IInv, TypeOK
    <3>2. Owner(x)
      BY <2>1, <3>1 DEF Owner
    <3>3. Locals(x) /\ tail < fresh
      BY DEF IInv, TailPosition
    <3> QED BY <3>1, <3>2, <3>3, Numbers DEF Locals, Owner
  <2>2. mine'[t] = fresh
    BY <1>2 DEF IInv, TypeOK
  <2>3. CASE u # t /\ w # t
    BY <2>1, <2>3 DEF IInv, Owners
  <2> QED BY <2>1, <2>2, <2>3, Numbers
<1> QED BY <1>3, <1>4, <1>5, <1>6, <1>7 DEF IInv

\* A step that leaves the tail alone or moves it to the successor of the node
\* it points at, executed by a thread that loaded that node.
LEMMA SwingStep ==
    ASSUME IInv, NEW t \in Thread, SwingTail(t) \/ HelpSwing(t)
    PROVE  IInv'
<1> USE MaxNodeAssumption
<1>1. /\ pc' = [pc EXCEPT ![t] = pc'[t]]
      /\ \/ pc[t] = "swing" /\ pc'[t] = "active"
         \/ pc[t] = "helpSwing" /\ pc'[t] = "help"
      /\ tail' = IF tail = cur[t] THEN tail + 1 ELSE tail
      /\ cur[t] + 1 < fresh
      /\ UNCHANGED <<ts, next, finish, head, fresh, cur, mine, oldest>>
  <2>1. CASE SwingTail(t)
    BY <2>1, Numbers DEF SwingTail, Goto, IInv, TypeOK, Locals
  <2>2. CASE HelpSwing(t)
    <3>1. cur[t] + 1 < fresh /\ next[cur[t]] = cur[t] + 1
      BY <2>2 DEF HelpSwing, HelpWith, Goto, IInv, TypeOK, Chain, Locals
    <3> QED BY <2>2, <3>1, Numbers DEF HelpSwing, HelpWith, Goto, IInv, TypeOK
  <2> QED BY <2>1, <2>2
<1>2. TypeOK'
  <2>1. pc' \in [Thread -> PC]
    BY <1>1 DEF IInv, TypeOK, PC
  <2>2. tail' \in NodeId
    BY <1>1 DEF IInv, TypeOK, NodeId
  <2> QED BY <1>1, <2>1, <2>2 DEF IInv, TypeOK
<1>3. Chain' /\ HeadStays'
  BY <1>1 DEF IInv, Chain, HeadStays
<1>4. TailPosition'
  <2>1. tail' < fresh' /\ fresh' <= tail' + 2
    BY <1>1, Numbers DEF IInv, TailPosition, Locals
  <2>2. ASSUME tail' + 1 < fresh'
        PROVE  \E u \in Thread : pc'[u] = "swing" /\ mine'[u] = tail' + 1
    <3>1. tail' = tail /\ tail # cur[t]
      BY <1>1, <2>2, Numbers DEF IInv, TailPosition
    <3>2. PICK u \in Thread : pc[u] = "swing" /\ mine[u] = tail + 1
      BY <1>1, <2>2, <3>1 DEF IInv, TailPosition
    <3>3. u # t
      BY <1>1, <3>1, <3>2, Numbers DEF IInv, Locals
    <3> QED BY <1>1, <3>1, <3>2, <3>3 DEF IInv, TypeOK
  <2> QED BY <2>1, <2>2 DEF TailPosition
<1>5. \A u \in Thread : Locals(u)'
  <2> TAKE u \in Thread
  <2>1. CASE u = t
    BY <1>1, <2>1, Numbers DEF IInv, Locals
  <2>2. CASE u # t
    <3>1. UNCHANGED <<pc[u], mine[u], cur[u]>>
      BY <1>1, <2>2 DEF IInv, TypeOK
    <3> QED BY <1>1, <3>1, Numbers DEF IInv, Locals
  <2> QED BY <2>1, <2>2
<1>6. Owners'
  BY <1>1 DEF IInv, TypeOK, Owners, Owner
<1> QED BY <1>2, <1>3, <1>4, <1>5, <1>6 DEF IInv

\* Giving the timestamp back; the node is not node 0.
LEMMA FinishStep ==
    ASSUME IInv, NEW t \in Thread, Finish(t)
    PROVE  IInv'
<1> USE MaxNodeAssumption DEF Goto
<1>1. /\ pc' = [pc EXCEPT ![t] = "idle"]
      /\ pc[t] = "active"
      /\ finish' = [finish EXCEPT ![mine[t]] = TRUE]
      /\ UNCHANGED <<ts, next, head, tail, fresh, cur, mine, oldest>>
  BY DEF Finish
<1>2. TypeOK'
  BY <1>1 DEF IInv, TypeOK, PC
<1>3. Chain'
  BY <1>1 DEF IInv, Chain
<1>4. HeadStays'
  BY <1>1 DEF IInv, TypeOK, HeadStays, Locals, NodeId
<1>5. TailPosition'
  BY <1>1 DEF IInv, TypeOK, TailPosition
<1>6. \A u \in Thread : Locals(u)'
  BY <1>1 DEF IInv, TypeOK, Locals
<1>7. Owners'
  BY <1>1 DEF IInv, TypeOK, Owners, Owner
<1> QED BY <1>2, <1>3, <1>4, <1>5, <1>6, <1>7 DEF IInv

\* remove_head returns node 0: that node is never finished.
LEMMA CheckHeadEffect ==
    ASSUME IInv, NEW t \in Thread, CheckHead(t)
    PROVE  /\ pc[t] = "checkHead"
           /\ pc' = [pc EXCEPT ![t] = "idle"]
           /\ oldest' = [oldest EXCEPT ![t] = 0]
           /\ UNCHANGED <<list, cur, mine>>
BY MaxNodeAssumption
   DEF CheckHead, SkipHead, Goto, IInv, TypeOK, Chain, HeadStays, Locals, TailPosition, NodeId

LEMMA CheckHeadStep ==
    ASSUME IInv, NEW t \in Thread, CheckHead(t)
    PROVE  IInv'
<1>1. /\ pc[t] = "checkHead"
      /\ pc' = [pc EXCEPT ![t] = "idle"]
      /\ oldest' = [oldest EXCEPT ![t] = 0]
      /\ UNCHANGED <<list, cur, mine>>
  BY CheckHeadEffect
<1>2. TypeOK' /\ Chain' /\ HeadStays'
  BY <1>1 DEF IInv, TypeOK, Chain, HeadStays, PC, list
<1>3. TailPosition'
  BY <1>1 DEF IInv, TypeOK, TailPosition, list
<1>4. \A u \in Thread : Locals(u)'
  BY <1>1 DEF IInv, TypeOK, Locals, list
<1>5. Owners'
  BY <1>1 DEF IInv, TypeOK, Owners, Owner
<1> QED BY <1>2, <1>3, <1>4, <1>5 DEF IInv

\* Every step preserves the invariant.
LEMMA NextIInv == IInv /\ [Next]_vars => IInv'
<1> SUFFICES ASSUME IInv, [Next]_vars PROVE IInv'
  OBVIOUS
<1>1. CASE UNCHANGED vars
  BY <1>1 DEF IInv, TypeOK, Chain, TailPosition, HeadStays, Locals, Owners, Owner, vars
<1>2. CASE Next
  <2> PICK t \in Thread : Begin(t) \/ Add(t) \/ Finish(t) \/ CallRemoveHead(t) \/ RemoveHead(t)
    BY <1>2 DEF Next
  <2> QED BY LocalSteps, LinkStep, SwingStep, FinishStep, CheckHeadStep DEF Add, RemoveHead
<1> QED BY <1>1, <1>2

\* The invariant holds in every reachable state.
LEMMA Invariant == Spec => []IInv
BY InitIInv, NextIInv, PTL DEF Spec

-----------------------------------------------------------------------------
(* The properties the runs check *)

\* Every variable keeps its type; in particular the tail, which helpers move to
\* a successor they read earlier, never becomes the sentinel.
THEOREM TypeCorrect == Spec => []TypeOK
<1>1. IInv => TypeOK
  BY DEF IInv
<1> QED BY <1>1, Invariant, PTL

\* When add_timestamp has returned, every writer reads at least its timestamp.
THEOREM Published == Spec => []TimestampPublished
<1>1. IInv => TimestampPublished
  BY Numbers, MaxNodeAssumption
     DEF IInv, TypeOK, Chain, TailPosition, Locals, TimestampPublished, Active,
         get_latest_timestamp, NodeId
<1> QED BY <1>1, Invariant, PTL

\* No two running range queries share a timestamp.
THEOREM Unique == Spec => []TimestampsUnique
<1>1. ASSUME IInv, NEW t \in Thread, Owner(t)
      PROVE  ts[mine[t]] = mine[t]
  BY SMTT(60), <1>1, Numbers, MaxNodeAssumption
     DEF IInv, TypeOK, Chain, TailPosition, Locals, Owner, NodeId
<1>2. IInv => TimestampsUnique
  BY <1>1 DEF IInv, Owners, Owner, TimestampsUnique
<1> QED BY <1>2, Invariant, PTL

\* The tail is at most one node behind.
THEOREM LagBounded == Spec => []TailLagsByOne
<1>1. IInv => TailLagsByOne
  BY Numbers, MaxNodeAssumption
     DEF IInv, TypeOK, Chain, TailPosition, TailLagsByOne, NodeId, Sentinel
<1> QED BY <1>1, Invariant, PTL

\* What a step does to the tail: nothing, or one node forward, and then the
\* thread that owns the node is still between its compare-and-swaps.
LEMMA TailStep ==
    ASSUME IInv, [Next]_vars
    PROVE  \/ tail' = tail
           \/ /\ tail' = tail + 1
              /\ tail + 1 < fresh
              /\ fresh' = fresh /\ ts' = ts
<1>1. ASSUME NEW t \in Thread, SwingTail(t) \/ HelpSwing(t)
      PROVE  /\ tail' = IF tail = cur[t] THEN cur[t] + 1 ELSE tail
             /\ cur[t] + 1 < fresh
             /\ fresh' = fresh /\ ts' = ts
  <2>1. CASE SwingTail(t)
    BY <2>1, Numbers DEF SwingTail, Goto, IInv, TypeOK, Locals
  <2>2. CASE HelpSwing(t)
    <3>1. cur[t] + 1 < fresh /\ next[cur[t]] = cur[t] + 1
      BY <2>2 DEF HelpSwing, HelpWith, Goto, IInv, TypeOK, Chain, Locals
    <3> QED BY <2>2, <3>1 DEF HelpSwing, HelpWith
  <2> QED BY <1>1, <2>1, <2>2
<1>2. CASE \E t \in Thread : SwingTail(t) \/ HelpSwing(t)
  BY <1>1, <1>2
<1>3. CASE ~ \E t \in Thread : SwingTail(t) \/ HelpSwing(t)
  BY <1>3, CheckHeadEffect
     DEF Next, Add, RemoveHead, Begin, LoadTail, LinkNew, LinkWith, LinkFail, HelpLoad,
         HelpCheck, Finish, CallRemoveHead, LoadHead, list, vars
<1> QED BY <1>2, <1>3

\* The timestamp of a node of the list never changes.
LEMMA StampsStay ==
    ASSUME IInv, [Next]_vars
    PROVE  \A n \in NodeId : n < fresh => ts'[n] = ts[n] /\ ts[n] = n
<1>1. IInv' /\ fresh \in Nat /\ fresh' \in Nat
  BY NextIInv, MaxNodeAssumption DEF IInv, TypeOK
<1>2. fresh <= fresh'
  BY <1>1, CheckHeadEffect
     DEF Next, Add, RemoveHead, Begin, LoadTail, LinkNew, LinkWith, LinkFail, SwingTail,
         HelpLoad, HelpCheck, HelpSwing, HelpWith, Finish, CallRemoveHead, LoadHead, list, vars
<1> QED BY <1>1, <1>2 DEF IInv, Chain, NodeId

\* The clock stands still or advances by one.
THEOREM ClockAdvances == Spec => ClockMonotone
<1>1. ASSUME IInv, [Next]_vars
      PROVE  get_latest_timestamp' \in {get_latest_timestamp, get_latest_timestamp + 1}
  <2>1. tail \in NodeId /\ tail < fresh /\ tail' \in NodeId
    BY <1>1, NextIInv DEF IInv, TypeOK, TailPosition
  <2>2. tail' \in {tail, tail + 1} /\ tail' < fresh
    BY <1>1, <2>1, TailStep
  <2> QED BY <1>1, <2>1, <2>2, StampsStay DEF get_latest_timestamp
<1> QED BY <1>1, Invariant, PTL DEF Spec, ClockMonotone

\* get_oldest_timestamp reports a value below every timestamp in use.
THEOREM OldestSafe == Spec => OldestIsSafe
<1>1. ASSUME IInv, [Next]_vars, NEW t \in Thread, NEW u \in Thread,
             pc[t] = "checkHead", pc'[t] = "idle", Active(u)
      PROVE  oldest'[t] < ts[mine[u]]
  <2>1. CheckHead(t)
    <3>1. ~ UNCHANGED vars
      BY <1>1 DEF vars
    <3>2. PICK w \in Thread :
             Begin(w) \/ Add(w) \/ Finish(w) \/ CallRemoveHead(w) \/ RemoveHead(w)
      BY <1>1, <3>1 DEF Next
    <3>3. pc' = [pc EXCEPT ![w] = pc'[w]]
      BY <1>1, <3>2 DEF Add, RemoveHead, Begin, LoadTail, LinkNew, LinkWith, LinkFail,
           SwingTail, HelpLoad, HelpCheck, HelpSwing, HelpWith, Finish, CallRemoveHead,
           LoadHead, CheckHead, SkipHead, Goto, IInv, TypeOK
    <3>4. w = t
      BY <1>1, <3>3 DEF IInv, TypeOK
    <3> QED
      BY <1>1, <3>2, <3>4 DEF Add, RemoveHead, Begin, LoadTail, LinkNew, LinkWith, LinkFail,
           SwingTail, HelpLoad, HelpCheck, HelpSwing, HelpWith, Finish, CallRemoveHead,
           LoadHead, Goto
  <2>2. oldest'[t] = 0
    BY <1>1, <2>1, CheckHeadEffect DEF IInv, TypeOK
  <2>3. ts[mine[u]] = mine[u] /\ mine[u] >= 1
    BY <1>1, Numbers, MaxNodeAssumption
       DEF IInv, TypeOK, Chain, TailPosition, Locals, Active, NodeId
  <2> QED BY <1>1, <2>2, <2>3, Numbers
<1>2. IInv /\ [Next]_vars =>
        \A t, u \in Thread :
           pc[t] = "checkHead" /\ pc'[t] = "idle" /\ Active(u) => oldest'[t] < ts[mine[u]]
  BY <1>1
<1> QED BY <1>2, Invariant, PTL DEF Spec, OldestIsSafe

-----------------------------------------------------------------------------
(* Refinement *)

\* In the abstract clock a query holds its timestamp from the moment the tail
\* reaches its node.
LEMMA StampedMeaning ==
    ASSUME IInv
    PROVE  \A t \in Thread :
              /\ Stamped(t) <=> Owner(t) /\ mine[t] <= tail
              /\ Stamped(t) => ts[mine[t]] = mine[t]
              /\ pc[t] = "active" => Stamped(t)
<1> SUFFICES ASSUME NEW t \in Thread
             PROVE  /\ Stamped(t) <=> Owner(t) /\ mine[t] <= tail
                    /\ Stamped(t) => ts[mine[t]] = mine[t]
                    /\ pc[t] = "active" => Stamped(t)
  OBVIOUS
<1>1. ts[tail] = tail
  BY DEF IInv, TypeOK, Chain, TailPosition
<1>2. Owner(t) => ts[mine[t]] = mine[t]
  BY Numbers, MaxNodeAssumption
     DEF IInv, TypeOK, Chain, TailPosition, Locals, Owner, NodeId
<1> QED BY <1>1, <1>2, Numbers DEF IInv, Locals, Stamped, Owner

\* The constructor's state is the abstract initial state.
LEMMA InitRefines == Init => Clock!Init
BY MaxNodeAssumption
   DEF Init, Clock!Init, get_latest_timestamp, callMap, stampMap, Stamped, NodeId

\* The values of the mapping: the clock is the name of the tail, the floor that
\* of the head, and a query is stamped once the tail has reached its node.
Mapping ==
    /\ get_latest_timestamp = tail
    /\ ts[head] = 0
    /\ \A t \in Thread :
          /\ callMap[t] = IF Owner(t) /\ mine[t] <= tail THEN "stamped"
                          ELSE IF pc[t] \in {"idle", "loadHead", "checkHead"} THEN "idle"
                          ELSE "pending"
          /\ stampMap[t] = IF Owner(t) /\ mine[t] <= tail THEN mine[t] ELSE 0

\* The invariant gives the mapping these values, before a step and after it.
LEMMA MappingHolds == IInv => Mapping
<1> SUFFICES ASSUME IInv PROVE Mapping
  OBVIOUS
<1>1. get_latest_timestamp = tail /\ ts[head] = 0
  BY MaxNodeAssumption
     DEF IInv, TypeOK, Chain, TailPosition, HeadStays, get_latest_timestamp, NodeId
<1> QED BY <1>1, StampedMeaning DEF Mapping, callMap, stampMap

LEMMA MappingHoldsNext == IInv' => Mapping'
BY MappingHolds, PTL

\* A step of t that does not move the tail changes the mapping at t only.
LEMMA QuietStep ==
    ASSUME IInv, IInv', NEW t \in Thread, tail' = tail,
           \A u \in Thread : u # t => pc'[u] = pc[u] /\ mine'[u] = mine[u]
    PROVE  /\ get_latest_timestamp' = get_latest_timestamp
           /\ ts'[head'] = ts[head]
           /\ callMap' = [callMap EXCEPT ![t] = callMap'[t]]
           /\ stampMap' = [stampMap EXCEPT ![t] = stampMap'[t]]
<1>1. get_latest_timestamp' = get_latest_timestamp /\ ts'[head'] = ts[head]
  BY MappingHolds, MappingHoldsNext DEF Mapping
<1>2. \A u \in Thread : u # t => callMap'[u] = callMap[u] /\ stampMap'[u] = stampMap[u]
  BY MappingHolds, MappingHoldsNext DEF Mapping, Owner
<1>3. callMap' = [callMap EXCEPT ![t] = callMap'[t]]
  BY <1>2 DEF callMap
<1>4. stampMap' = [stampMap EXCEPT ![t] = stampMap'[t]]
  BY <1>2 DEF stampMap
<1> QED BY <1>1, <1>3, <1>4

\* Steps that the clock does not see.
LEMMA StutterSteps ==
    ASSUME IInv, IInv', NEW t \in Thread,
           \/ LoadTail(t) \/ LinkNew(t) \/ LinkFail(t) \/ HelpLoad(t) \/ HelpCheck(t)
           \/ CallRemoveHead(t) \/ RemoveHead(t)
           \/ (SwingTail(t) \/ HelpSwing(t)) /\ tail' = tail
    PROVE  UNCHANGED Clock!vars
<1>1. /\ tail' = tail
      /\ pc' = [pc EXCEPT ![t] = pc'[t]]
      /\ \A u \in Thread : u # t => mine'[u] = mine[u]
  BY CheckHeadEffect
     DEF LoadTail, LinkNew, LinkWith, LinkFail, SwingTail, HelpLoad, HelpCheck, HelpSwing,
         HelpWith, CallRemoveHead, RemoveHead, LoadHead, Goto, list, IInv, TypeOK
<1>2. callMap'[t] = callMap[t] /\ stampMap'[t] = stampMap[t]
  <2>1. CASE \/ LoadTail(t) \/ LinkFail(t) \/ HelpLoad(t) \/ HelpCheck(t)
             \/ CallRemoveHead(t) \/ RemoveHead(t) \/ HelpSwing(t)
    BY <1>1, <2>1, MappingHolds, MappingHoldsNext, CheckHeadEffect
       DEF Mapping, Owner, LoadTail, LinkFail, HelpLoad, HelpCheck, HelpSwing, HelpWith,
           CallRemoveHead, RemoveHead, LoadHead, Goto, IInv, TypeOK
  <2>2. CASE LinkNew(t)
    <3>1. /\ pc[t] = "link" /\ pc'[t] = "swing"
          /\ mine'[t] = fresh /\ tail < fresh
      BY <2>2 DEF LinkNew, LinkWith, Goto, IInv, TypeOK, TailPosition
    <3> QED BY <1>1, <3>1, Numbers, MappingHolds, MappingHoldsNext DEF Mapping, Owner
  <2>3. CASE SwingTail(t) /\ tail' = tail
    <3>1. /\ pc[t] = "swing" /\ pc'[t] = "active" /\ mine'[t] = mine[t]
          /\ mine[t] <= tail
      BY <2>3, Numbers DEF SwingTail, Goto, IInv, TypeOK, Locals
    <3> QED BY <1>1, <3>1, MappingHolds, MappingHoldsNext DEF Mapping, Owner
  <2> QED BY <2>1, <2>2, <2>3
<1>3. \A u \in Thread : u # t => pc'[u] = pc[u] /\ mine'[u] = mine[u]
  BY <1>1 DEF IInv, TypeOK
<1>4. /\ get_latest_timestamp' = get_latest_timestamp
      /\ ts'[head'] = ts[head]
      /\ callMap' = [callMap EXCEPT ![t] = callMap'[t]]
      /\ stampMap' = [stampMap EXCEPT ![t] = stampMap'[t]]
  BY <1>1, <1>3, QuietStep
<1>5. callMap' = callMap /\ stampMap' = stampMap
  BY ZenonT(60), <1>2, <1>4 DEF callMap, stampMap
<1> QED BY <1>4, <1>5 DEF Clock!vars

\* The begin and the end of a range query.
LEMMA RequestStep ==
    ASSUME IInv, IInv', NEW t \in Thread, Begin(t)
    PROVE  Clock!Request(t)
<1>1. /\ tail' = tail
      /\ pc[t] = "idle" /\ pc'[t] = "loadTail"
      /\ \A u \in Thread : u # t => pc'[u] = pc[u] /\ mine'[u] = mine[u]
  BY DEF Begin, Goto, list, IInv, TypeOK
<1>2. /\ get_latest_timestamp' = get_latest_timestamp
      /\ ts'[head'] = ts[head]
      /\ callMap' = [callMap EXCEPT ![t] = callMap'[t]]
      /\ stampMap' = [stampMap EXCEPT ![t] = stampMap'[t]]
  BY <1>1, QuietStep
<1>3. callMap[t] = "idle" /\ callMap'[t] = "pending" /\ stampMap'[t] = stampMap[t]
  BY <1>1, MappingHolds, MappingHoldsNext DEF Mapping, Owner
<1>4. stampMap' = stampMap
  BY <1>2, <1>3 DEF stampMap
<1> QED BY <1>2, <1>3, <1>4 DEF Clock!Request

LEMMA ReturnStep ==
    ASSUME IInv, IInv', NEW t \in Thread, Finish(t)
    PROVE  Clock!Finish(t)
<1>1. /\ tail' = tail
      /\ pc[t] = "active" /\ pc'[t] = "idle" /\ mine[t] <= tail
      /\ \A u \in Thread : u # t => pc'[u] = pc[u] /\ mine'[u] = mine[u]
  BY DEF Finish, Goto, IInv, TypeOK, Locals
<1>2. /\ get_latest_timestamp' = get_latest_timestamp
      /\ ts'[head'] = ts[head]
      /\ callMap' = [callMap EXCEPT ![t] = callMap'[t]]
      /\ stampMap' = [stampMap EXCEPT ![t] = stampMap'[t]]
  BY <1>1, QuietStep
<1>3. callMap[t] = "stamped" /\ callMap'[t] = "idle" /\ stampMap'[t] = 0
  BY <1>1, MappingHolds, MappingHoldsNext DEF Mapping, Owner
<1> QED BY <1>2, <1>3 DEF Clock!Finish

\* Moving the tail to a node gives the owner of the node its timestamp, whether
\* the owner moves the tail or a helper does.
LEMMA TickStep ==
    ASSUME IInv, IInv', NEW t \in Thread, SwingTail(t) \/ HelpSwing(t), tail' # tail
    PROVE  \E w \in Thread : Clock!Tick(w)
<1>1. /\ tail' = tail + 1 /\ tail + 1 < fresh
      /\ tail = cur[t]
      /\ mine' = mine
      /\ pc' = [pc EXCEPT ![t] = pc'[t]]
      /\ \/ pc[t] = "swing" /\ pc'[t] = "active"
         \/ pc[t] = "helpSwing" /\ pc'[t] = "help"
  <2>1. [Next]_vars
    BY DEF Next, Add
  <2> QED BY <2>1, TailStep DEF SwingTail, HelpSwing, HelpWith, Goto, IInv, TypeOK
<1>2. PICK w \in Thread : pc[w] = "swing" /\ mine[w] = tail + 1
  BY <1>1 DEF IInv, TailPosition
<1>3. pc'[w] \in {"swing", "active"}
  BY <1>1, <1>2 DEF IInv, TypeOK
<1>4. callMap[w] = "pending" /\ callMap'[w] = "stamped" /\ stampMap'[w] = tail + 1
  BY <1>1, <1>2, <1>3, Numbers, MappingHolds, MappingHoldsNext DEF Mapping, Owner
<1>5. ASSUME NEW u \in Thread, u # w
      PROVE  callMap'[u] = callMap[u] /\ stampMap'[u] = stampMap[u]
  <2>1. Owner(u) => mine[u] # tail + 1
    BY <1>2, <1>5 DEF IInv, Owners, Owner
  <2>2. /\ Owner(u)' <=> Owner(u)
        /\ pc'[u] = pc[u] \/ (pc[u] = "helpSwing" /\ pc'[u] = "help")
    <3>1. CASE u = t
      BY <1>1, <2>1, <3>1, Numbers DEF IInv, TypeOK, Locals, Owner
    <3>2. CASE u # t
      BY <1>1, <3>2 DEF IInv, TypeOK, Owner
    <3> QED BY <3>1, <3>2
  <2>3. Owner(u) => (mine[u] <= tail <=> mine[u] <= tail + 1)
    BY <2>1, Numbers
  <2> QED BY <1>1, <2>2, <2>3, MappingHolds, MappingHoldsNext DEF Mapping
<1>6. callMap' = [callMap EXCEPT ![w] = "stamped"]
  BY <1>4, <1>5 DEF callMap
<1>7. stampMap' = [stampMap EXCEPT ![w] = tail + 1]
  BY <1>4, <1>5 DEF stampMap
<1>8. get_latest_timestamp = tail /\ get_latest_timestamp' = tail + 1 /\ ts'[head'] = ts[head]
  BY <1>1, MappingHolds, MappingHoldsNext DEF Mapping
<1> QED BY <1>4, <1>6, <1>7, <1>8 DEF Clock!Tick

\* The version tracker implements the version clock.
THEOREM Refinement == Spec => ImplementsClock
<1>1. ASSUME IInv, IInv', [Next]_vars
      PROVE  [Clock!Next]_(Clock!vars)
  <2>1. CASE UNCHANGED vars
    BY <2>1 DEF vars, Clock!vars, get_latest_timestamp, callMap, stampMap, Stamped
  <2>2. CASE Next
    <3> PICK t \in Thread : Begin(t) \/ Add(t) \/ Finish(t) \/ CallRemoveHead(t) \/ RemoveHead(t)
      BY <2>2 DEF Next
    <3>1. CASE Begin(t)
      BY <1>1, <3>1, RequestStep DEF Clock!Next
    <3>2. CASE Finish(t)
      BY <1>1, <3>2, ReturnStep DEF Clock!Next
    <3>3. CASE (SwingTail(t) \/ HelpSwing(t)) /\ tail' # tail
      BY <1>1, <3>3, TickStep DEF Clock!Next
    <3> QED BY <1>1, <3>1, <3>2, <3>3, StutterSteps DEF Add
  <2> QED BY <1>1, <2>1, <2>2
<1> QED BY <1>1, InitRefines, Invariant, PTL DEF Spec, ImplementsClock, Clock!Spec

=============================================================================
