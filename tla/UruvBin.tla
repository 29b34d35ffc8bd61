------------------------------ MODULE UruvBin ------------------------------
(***************************************************************************)
(* One position of the mobs_lf array of a Kanva_RSModel: first empty, then *)
(* a sorted list whose nodes carry version lists (Uruv/LF_LL.h), and, when *)
(* the list is full, a model whose keys and versions were collected from   *)
(* it.  Threads insert and remove, and range queries read, while the list  *)
(* is collected and replaced.  A node is never unlinked: remove pushes the *)
(* version -1.  A freeze bit protects the pointer next, but not vhead: the *)
(* test that guards the freezing of vhead can no longer succeed.           *)
(*                                                                         *)
(* The clock is the one of VersionClock.  A node is named by its key.  A   *)
(* Vnode is [val, ts, below], named in the order of creation, where below  *)
(* is what its nextv leads to.  init_ts is one step: its test, its read of *)
(* the clock and its compare-and-swap are interleaved in VersionedArray,   *)
(* and a timestamp counts from the read of the clock, as whoever looks at  *)
(* the newest version in between stamps it.                                *)
(***************************************************************************)
EXTENDS Integers, FiniteSets, Sequences, FiniteSetsExt

CONSTANTS
    Thread,         \* the threads of the program
    Stalled,        \* the threads that the scheduler may abandon
    Value,          \* the values a key may be given
    Removed,        \* the value -1
    NKeys,          \* the keys of this position are 1 .. NKeys, in order
    First,          \* the keys that may be there from the beginning
    Threshhold,     \* threshhold: a list of this size is replaced
    MaxCalls,       \* bound: the calls of insert and remove
    MaxClock        \* bound: the range queries

ASSUME UruvAssumption ==
    /\ NKeys \in Nat \ {0} /\ Threshhold \in Nat \ {0}
    /\ MaxCalls \in Nat /\ MaxClock \in Nat
    /\ First \subseteq 1 .. NKeys /\ Removed \notin Value
    /\ IsFiniteSet(Thread) /\ Stalled \subseteq Thread

Key == 1 .. NKeys
MinNode == 0                \* the sentinels of the list
MaxNode == NKeys + 1
Invalid == -1               \* the timestamp of a new Vnode
Oldest == 0                 \* get_oldest_timestamp: the first tracker node never finishes

VARIABLES
    clock,          \* get_latest_timestamp
    mob,            \* what mobs_lf[bin_pos] points to
    next, frozen,   \* ll_Node::next, and the nodes whose next has its freeze bit
    vhead,          \* ll_Node::vhead, 0 for a key without a node
    size,           \* Linked_List::size
    isReclaimed,    \* Linked_List::isReclaimed
    vnodes,         \* the Vnodes ever published
    trained,        \* the keys of the model
    mhead,          \* the version lists of the model and of what lies below it
    local,          \* local[t]: the step and the locals of thread t
    calls,          \* calls made so far
    \* history
    done,           \* done[k]: versions whose insert or remove has returned
    late,           \* late[k]: versions pushed onto a frozen node
    retired         \* versions handed to vnodeRecMgr by reclaimMem

links == <<next, frozen>>
flags == <<mob, size, isReclaimed>>
model == <<trained, mhead>>
history == <<done, late, retired>>
vars == <<clock, flags, links, vhead, vnodes, model, local, calls, history>>

NoVersions == [k \in Key |-> 0]

\* The locals of a thread: key and value of its call, left_node, right_node or
\* left_next, the Vnode it has loaded, curr_value; then the mob that its range
\* query has loaded, the versions that its collect or its range query has taken,
\* the timestamp of the query, and, as history, done at that moment.
NoCall == [pc |-> "idle", key |-> 1, new |-> Removed, at |-> MinNode, right |-> MinNode,
           node |-> 0, old |-> Removed, seen |-> "null", got |-> NoVersions, qts |-> 0,
           tick |-> [k \in Key |-> {}]]

\* A position nothing was inserted into, or a list with fewer keys than
\* threshhold, which were inserted and stamped before the first range query.
Init ==
    /\ \E S \in {S \in SUBSET First : Cardinality(S) < Threshhold} :
        /\ mob = IF S = {} THEN "null" ELSE "bin"
        /\ vhead = [k \in Key |-> IF k \in S THEN Cardinality({j \in S : j <= k}) ELSE 0]
        /\ next = [n \in MinNode .. NKeys |-> IF n \in S \cup {MinNode}
                        THEN Min({m \in S \cup {MaxNode} : m > n}) ELSE MaxNode]
        /\ size = Cardinality(S)
        /\ vnodes \in [1 .. Cardinality(S) -> [val : Value, ts : {0}, below : {{}}]]
    /\ clock = 0
    /\ frozen = {}
    /\ isReclaimed = FALSE
    /\ trained = {}
    /\ mhead = NoVersions
    /\ local = [t \in Thread |-> NoCall]
    /\ calls = 0
    /\ done = [k \in Key |-> {vhead[k]} \ {0}]
    /\ late = [k \in Key |-> {}]
    /\ retired = {}

At(t, step) == local[t].pc = step
Goto(t, step) == local' = [local EXCEPT ![t].pc = step]
Return(t) == local' = [local EXCEPT ![t] = NoCall]

\* Thread t goes on with its call and has no other locals.
Continue(t, step) ==
    local' = [local EXCEPT ![t] = [NoCall EXCEPT !.pc = step, !.key = local[t].key,
                                                 !.new = local[t].new]]

\* Version i and the ones its nextv leads to.
Chain(i) == IF i = 0 THEN {} ELSE {i} \cup vnodes[i].below

\* A new Vnode whose nextv is i.
NewVnode(v, i, time) == [val |-> v, ts |-> time, below |-> Chain(i)]

\* init_ts
Stamped(i) ==
    IF vnodes[i].ts = Invalid THEN [vnodes EXCEPT ![i].ts = clock] ELSE vnodes

-----------------------------------------------------------------------------
(* insert_model_or_bin and remove_model_or_bin *)

\* Where a call goes with the pointer it loads.
Dispatch(v) ==
    CASE mob = "null" -> IF v = Removed THEN "absent" ELSE "newBin"
      [] mob = "bin" -> "size"
      [] mob = "model" -> "model"

CallWrite(t, k, v) ==
    /\ At(t, "idle")
    /\ calls < MaxCalls
    /\ calls' = calls + 1
    /\ local' = [local EXCEPT ![t].pc = Dispatch(v), ![t].key = k, ![t].new = v]
    /\ UNCHANGED <<clock, flags, links, vhead, vnodes, model, history>>

\* retry
LoadMob(t) ==
    /\ At(t, "retry")
    /\ Goto(t, Dispatch(local[t].new))
    /\ UNCHANGED <<clock, flags, links, vhead, vnodes, model, calls, history>>

\* remove finds no bin.
RemoveNothing(t) ==
    /\ At(t, "absent")
    /\ Return(t)
    /\ UNCHANGED <<clock, flags, links, vhead, vnodes, model, calls, history>>

NewBin(t) ==
    /\ At(t, "newBin")
    /\ mob = "null"
    /\ mob' = "bin"
    /\ Goto(t, "size")
    /\ UNCHANGED <<clock, size, isReclaimed, links, vhead, vnodes, model, calls, history>>

NewBinFails(t) ==
    /\ At(t, "newBin")
    /\ mob # "null"
    /\ Goto(t, "retry")
    /\ UNCHANGED <<clock, flags, links, vhead, vnodes, model, calls, history>>

-----------------------------------------------------------------------------
(* Linked_List::insert and find; remove inserts -1 *)

\* A list that is full: insert goes on to collect it.
TestSize(t) ==
    /\ At(t, "size")
    /\ size < Threshhold \/ local[t].new # Removed
    /\ Goto(t, IF size < Threshhold THEN "find" ELSE "collect")
    /\ UNCHANGED <<clock, flags, links, vhead, vnodes, model, calls, history>>

\* remove falls through the branch that is commented out, to return false.
RemoveFull(t) ==
    /\ At(t, "size")
    /\ size >= Threshhold /\ local[t].new = Removed
    /\ Return(t)
    /\ UNCHANGED <<clock, flags, links, vhead, vnodes, model, calls, history>>

\* find loads the first node twice, ignoring a freeze bit set in between: the
\* loads are one step, as the node itself cannot change after the freeze.
FindHead(t) ==
    /\ At(t, "find")
    /\ MinNode \notin frozen
    /\ local' = [local EXCEPT ![t].pc = "findStep", ![t].right = next[MinNode]]
    /\ UNCHANGED <<clock, flags, links, vhead, vnodes, model, calls, history>>

FindNext(t) ==
    LET me == local[t] IN
    /\ At(t, "findStep")
    /\ me.right \notin frozen
    /\ me.right < me.key
    /\ local' = [local EXCEPT ![t].at = me.right, ![t].right = next[me.right]]
    /\ UNCHANGED <<clock, flags, links, vhead, vnodes, model, calls, history>>

\* The key has a node, or its place is found; remove of an absent key returns 0,
\* which is true.
FindEnd(t) ==
    LET me == local[t] IN
    /\ At(t, "findStep")
    /\ me.right \notin frozen
    /\ \/ me.right = me.key /\ Continue(t, "read")
       \/ me.right > me.key /\ me.new # Removed /\ Goto(t, "link")
       \/ me.right > me.key /\ me.new = Removed /\ Return(t)
    /\ UNCHANGED <<clock, flags, links, vhead, vnodes, model, calls, history>>

\* find meets a frozen pointer: the call returns false and changes nothing.
FindFrozen(t) ==
    /\ \/ At(t, "find") /\ MinNode \in frozen
       \/ At(t, "findStep") /\ local[t].right \in frozen
    /\ Return(t)
    /\ UNCHANGED <<clock, flags, links, vhead, vnodes, model, calls, history>>

LinkIf(t, guard) ==
    LET me == local[t] IN
    /\ At(t, "link")
    /\ guard
    /\ next[me.at] = me.right
    /\ next' = [next EXCEPT ![me.at] = me.key, ![me.key] = me.right]
    /\ vhead' = [vhead EXCEPT ![me.key] = Len(vnodes) + 1]
    /\ vnodes' = Append(vnodes, NewVnode(me.new, 0, Invalid))
    /\ Continue(t, "linked")
    /\ UNCHANGED <<clock, flags, frozen, model, calls, history>>

\* Mutant: the compare-and-swap ignores the freeze bit.
LinkFrozen(t) == LinkIf(t, TRUE)

\* The compare-and-swap of prev_node->next, which fails on a frozen pointer.
Link(t) == LinkIf(t, local[t].at \notin frozen)

LinkFails(t) ==
    /\ At(t, "link")
    /\ local[t].at \in frozen \/ next[local[t].at] # local[t].right
    /\ Continue(t, "find")
    /\ UNCHANGED <<clock, flags, links, vhead, vnodes, model, calls, history>>

\* size += 1, and the call returns: the first version of the node is its own.
Count(t) ==
    /\ At(t, "count")
    /\ size' = size + 1
    /\ done' = [done EXCEPT ![local[t].key] = @ \cup {Min(Chain(local[t].node))}]
    /\ Return(t)
    /\ UNCHANGED <<clock, mob, isReclaimed, links, vhead, vnodes, model, calls, late, retired>>

-----------------------------------------------------------------------------
(* read, vCAS and init_ts *)

LoadThen(t, from, head, to) ==
    /\ At(t, from)
    /\ local' = [local EXCEPT ![t].pc = to, ![t].node = head]
    /\ UNCHANGED <<clock, flags, links, vhead, vnodes, model, calls, history>>

\* The argument of init_ts: in read, in vCAS, and after a node has been linked.
Load(t) ==
    LET head == vhead[local[t].key] IN
    \/ LoadThen(t, "read", head, "readStamp")
    \/ LoadThen(t, "vCAS", head, "vStamp")
    \/ LoadThen(t, "linked", head, "linkStamp")

StampThen(t, from, to) ==
    /\ At(t, from)
    /\ vnodes' = Stamped(local[t].node)
    /\ Goto(t, to)
    /\ UNCHANGED <<clock, flags, links, vhead, model, calls, history>>

Stamp(t) ==
    \/ StampThen(t, "readStamp", "readValue")
    \/ StampThen(t, "vStamp", "push")
    \/ StampThen(t, "linkStamp", "count")

\* The second load of read; another thread may have written the same value.
ReadValue(t) ==
    LET value == vnodes[vhead[local[t].key]].val IN
    /\ At(t, "readValue")
    /\ IF value = local[t].new
         THEN Return(t)
         ELSE local' = [local EXCEPT ![t].pc = "vCAS", ![t].node = 0, ![t].old = value]
    /\ UNCHANGED <<clock, flags, links, vhead, vnodes, model, calls, history>>

\* The head is the version that was loaded, and has the value that was read.
HeadUnchanged(me) == vhead[me.key] = me.node /\ vnodes[me.node].val = me.old

\* The compare-and-swap of vhead, which looks at no freeze bit.
Push(t) ==
    LET me == local[t]
        i == Len(vnodes) + 1
    IN  /\ At(t, "push")
        /\ HeadUnchanged(me)
        /\ vnodes' = Append(vnodes, NewVnode(me.new, me.node, Invalid))
        /\ vhead' = [vhead EXCEPT ![me.key] = i]
        /\ late' = [late EXCEPT ![me.key] = IF me.key \in frozen THEN @ \cup {i} ELSE @]
        /\ local' = [local EXCEPT ![t].pc = "pushed", ![t].node = i, ![t].old = Removed]
        /\ UNCHANGED <<clock, flags, links, model, calls, done, retired>>

PushFails(t) ==
    /\ At(t, "push")
    /\ ~HeadUnchanged(local[t])
    /\ Continue(t, "read")
    /\ UNCHANGED <<clock, flags, links, vhead, vnodes, model, calls, history>>

ReturnPushWith(t, versions) ==
    /\ At(t, "pushed")
    /\ vnodes' = versions
    /\ done' = [done EXCEPT ![local[t].key] = @ \cup {local[t].node}]
    /\ Return(t)
    /\ UNCHANGED <<clock, flags, links, vhead, model, calls, late, retired>>

\* Mutant: the new version is left to others to stamp.
ReturnUnstamped(t) == ReturnPushWith(t, vnodes)

\* The new version is stamped, and the call returns.
ReturnPush(t) == ReturnPushWith(t, Stamped(local[t].node))

-----------------------------------------------------------------------------
(* collect, and the swap of the list for a model *)

CollectIf(t, guard) ==
    /\ At(t, "collect")
    /\ guard
    /\ Goto(t, "freeze")
    /\ UNCHANGED <<clock, flags, links, vhead, vnodes, model, calls, history>>

\* Mutant: wait for the thread that has begun to freeze the list.
CollectAlone(t) == CollectIf(t, ~isReclaimed /\ MinNode \notin frozen)

\* The first test of isReclaimed.
CollectBegin(t) == CollectIf(t, ~isReclaimed)

CollectReclaimed(t) ==
    /\ At(t, "collect") \/ At(t, "take")
    /\ isReclaimed
    /\ Continue(t, "retry")
    /\ UNCHANGED <<clock, flags, links, vhead, vnodes, model, calls, history>>

\* Go to the next node, which a frozen pointer fixes; the last sentinel ends the
\* loop.
Advance(me, versions) ==
    [me EXCEPT !.pc = IF next[me.at] = MaxNode THEN "swap" ELSE "freeze",
               !.at = next[me.at], !.got = versions]

FreezeIf(t, guard) ==
    LET me == local[t] IN
    /\ At(t, "freeze")
    /\ frozen' = IF guard THEN frozen \cup {me.at} ELSE frozen
    /\ local' = [local EXCEPT ![t] = IF me.at = MinNode THEN Advance(me, NoVersions)
                                     ELSE [me EXCEPT !.pc = "take"]]
    /\ UNCHANGED <<clock, flags, next, vhead, vnodes, model, calls, history>>

\* Mutant: only the first pointer is frozen.
FreezeFirst(t) == FreezeIf(t, local[t].at = MinNode)

\* Set the freeze bit of left_node->next, unless it is set.
Freeze(t) == FreezeIf(t, TRUE)

TakeVersion(t, i) ==
    /\ At(t, "take")
    /\ ~isReclaimed
    /\ local' = [local EXCEPT ![t] =
                    Advance(local[t], [local[t].got EXCEPT ![local[t].at] = i])]
    /\ UNCHANGED <<clock, flags, links, vhead, vnodes, model, calls, history>>

\* Mutant: collect takes the last version of the list.
TakeLast(t) == TakeVersion(t, Min(Chain(vhead[local[t].at])))

\* vhead as it is now is pushed to version_lists.  The load and the test of
\* isReclaimed are one step: the flag is set only when mobs_lf has changed,
\* after which nothing that this collect returns is used.
Take(t) == TakeVersion(t, vhead[local[t].at])

\* The compare-and-swap of mobs_lf.  The test of isReclaimed before it is part of
\* it: the flag is set only after the pointer has changed.
Swap(t) ==
    /\ At(t, "swap")
    /\ mob = "bin"
    /\ mob' = "model"
    /\ trained' = {k \in Key : local[t].got[k] # 0}
    /\ mhead' = local[t].got
    /\ Continue(t, "flag")
    /\ UNCHANGED <<clock, size, isReclaimed, links, vhead, vnodes, calls, history>>

SwapFails(t) ==
    /\ At(t, "swap")
    /\ mob # "bin"
    /\ Continue(t, "retry")
    /\ UNCHANGED <<clock, flags, links, vhead, vnodes, model, calls, history>>

Flag(t) ==
    /\ At(t, "flag")
    /\ isReclaimed' = TRUE
    /\ Goto(t, "reclaim")
    /\ UNCHANGED <<clock, mob, size, links, vhead, vnodes, model, calls, history>>

\* reclaimMem: the versions below each head whose timestamp is not above the
\* oldest one.  It is one step: nothing that other threads do depends on it.
Reclaim(t) ==
    /\ At(t, "reclaim")
    /\ retired' = UNION {{i \in vnodes[vhead[k]].below : vnodes[i].ts <= Oldest} :
                            k \in {k \in Key : vhead[k] # 0}}
    /\ Goto(t, "model")
    /\ UNCHANGED <<clock, flags, links, vhead, vnodes, model, calls, done, late>>

-----------------------------------------------------------------------------
(* insert_retrain and remove of the model, one step each: VersionedArray has *)
(* the steps for a key of the model, and a key below it is in another        *)
(* position, which is again what this module describes                       *)

\* getValue, and -1 for a key that is not there.
Current(k) == IF mhead[k] = 0 THEN Removed ELSE vnodes[mhead[k]].val

\* A key of the model is inserted if it was removed, and removed if it was not.
ModelAccepts(k, v) == k \in trained => (v = Removed) # (Current(k) = Removed)

\* The version that a new one is pushed onto is stamped first.
ModelWrite(t) ==
    LET k == local[t].key
        v == local[t].new
        i == Len(vnodes) + 1
    IN  /\ At(t, "model")
        /\ ModelAccepts(k, v) /\ v # Current(k)
        /\ vnodes' = Append(IF mhead[k] = 0 THEN vnodes ELSE Stamped(mhead[k]),
                            NewVnode(v, mhead[k], clock))
        /\ mhead' = [mhead EXCEPT ![k] = i]
        /\ done' = [done EXCEPT ![k] = IF k \in trained THEN @ \cup {i} ELSE @]
        /\ Return(t)
        /\ UNCHANGED <<clock, flags, links, vhead, trained, calls, late, retired>>

\* Nothing to do, or the list below is being frozen.
ModelNothing(t) ==
    LET k == local[t].key IN
    /\ At(t, "model")
    /\ k \notin trained \/ ~ModelAccepts(k, local[t].new)
    /\ Return(t)
    /\ UNCHANGED <<clock, flags, links, vhead, vnodes, model, calls, history>>

-----------------------------------------------------------------------------
(* rangequery: the part of scan that reads this position, range_query for a *)
(* list and the keys of the model otherwise                                 *)

\* add_timestamp
CallQuery(t) ==
    /\ At(t, "idle")
    /\ clock < MaxClock
    /\ clock' = clock + 1
    /\ local' = [local EXCEPT ![t].pc = "qMob", ![t].qts = clock + 1, ![t].tick = done]
    /\ UNCHANGED <<flags, links, vhead, vnodes, model, calls, history>>

\* The key of the model that follows k, or the end.
After(k) == Min({j \in trained : j > k} \cup {MaxNode})

QueryMob(t) ==
    /\ At(t, "qMob")
    /\ local' = [local EXCEPT
          ![t].seen = mob,
          ![t].pc = IF mob = "bin" THEN "qHead" ELSE "qNext",
          ![t].at = IF mob = "bin" THEN MinNode ELSE After(MinNode)]
    /\ UNCHANGED <<clock, flags, links, vhead, vnodes, model, calls, history>>

QueryHead(t) ==
    /\ At(t, "qHead")
    /\ local' = [local EXCEPT ![t].pc = "qNext", ![t].at = next[MinNode]]
    /\ UNCHANGED <<clock, flags, links, vhead, vnodes, model, calls, history>>

\* left_next is loaded before the versions of left_node are read.
QueryNext(t) ==
    LET me == local[t] IN
    /\ At(t, "qNext")
    /\ me.at # MaxNode
    /\ local' = [local EXCEPT
          ![t].pc = "qLoad",
          ![t].right = IF me.seen = "model" THEN After(me.at) ELSE next[me.at]]
    /\ UNCHANGED <<clock, flags, links, vhead, vnodes, model, calls, history>>

QueryLoad(t) ==
    LET me == local[t] IN
    LoadThen(t, "qLoad", IF me.seen = "model" THEN mhead[me.at] ELSE vhead[me.at], "qStamp")

\* init_ts, and the walk along nextv to the first timestamp below T: only a
\* newest version can lack one, and this one has it now.
QueryWalk(t) ==
    LET me == local[t] IN
    /\ At(t, "qStamp")
    /\ vnodes' = Stamped(me.node)
    /\ local' = [local EXCEPT ![t] = [me EXCEPT
          !.pc = "qNext", !.at = me.right, !.right = MinNode, !.node = 0,
          !.got[me.at] = Max({i \in Chain(me.node) : vnodes'[i].ts < me.qts} \cup {0})]]
    /\ UNCHANGED <<clock, flags, links, vhead, model, calls, history>>

\* The end of the position, or of what the query has room for.
QueryReturn(t) ==
    /\ At(t, "qNext")
    /\ Return(t)
    /\ UNCHANGED <<clock, flags, links, vhead, vnodes, model, calls, history>>

-----------------------------------------------------------------------------
WriteStep(t) ==
    \/ LoadMob(t) \/ RemoveNothing(t) \/ NewBin(t) \/ NewBinFails(t)
    \/ TestSize(t) \/ RemoveFull(t)
    \/ FindHead(t) \/ FindNext(t) \/ FindEnd(t) \/ FindFrozen(t)
    \/ Link(t) \/ LinkFails(t) \/ Count(t)
    \/ Load(t) \/ Stamp(t) \/ ReadValue(t) \/ Push(t) \/ PushFails(t) \/ ReturnPush(t)
    \/ CollectBegin(t) \/ CollectReclaimed(t) \/ Freeze(t) \/ Take(t)
    \/ Swap(t) \/ SwapFails(t) \/ Flag(t) \/ Reclaim(t) \/ ModelWrite(t) \/ ModelNothing(t)

QueryStep(t) ==
    QueryMob(t) \/ QueryHead(t) \/ QueryNext(t) \/ QueryLoad(t) \/ QueryWalk(t) \/ QueryReturn(t)

Step(t) == WriteStep(t) \/ QueryStep(t)

Next ==
    \E t \in Thread :
        \/ Step(t)
        \/ CallQuery(t)
        \/ \E k \in Key, v \in Value \cup {Removed} : CallWrite(t, k, v)

Spec == Init /\ [][Next]_vars

\* The scheduler runs every thread except those of Stalled.
FairSpec == Spec /\ \A t \in Thread \ Stalled : WF_vars(Step(t))

-----------------------------------------------------------------------------
(* Properties *)

WriteSteps == {"retry", "absent", "newBin", "size", "find", "findStep", "link", "linked",
    "linkStamp", "count", "read", "readStamp", "readValue", "vCAS", "vStamp", "push", "pushed",
    "collect", "freeze", "take", "swap", "flag", "reclaim", "model"}
QuerySteps == {"qMob", "qHead", "qNext", "qLoad", "qStamp"}

Linked == {k \in Key : vhead[k] # 0}
Mobs == {"null", "bin", "model"}
VersionId == 0 .. Len(vnodes)

Locals ==
    [pc : WriteSteps \cup QuerySteps \cup {"idle"}, key : Key,
     new : Value \cup {Removed}, old : Value \cup {Removed},
     at : MinNode .. MaxNode, right : MinNode .. MaxNode, node : VersionId,
     seen : Mobs, got : [Key -> VersionId], qts : 0 .. clock, tick : [Key -> SUBSET VersionId]]

\* TypeOK: every variable has its type; the size counts linked nodes, only those
\* and the first sentinel are frozen, and a version leads to older ones only.
TypeOK ==
    /\ clock \in 0 .. MaxClock /\ calls \in 0 .. MaxCalls
    /\ mob \in Mobs /\ isReclaimed \in BOOLEAN
    /\ next \in [MinNode .. NKeys -> 1 .. MaxNode]
    /\ frozen \subseteq Linked \cup {MinNode}
    /\ vhead \in [Key -> VersionId] /\ mhead \in [Key -> VersionId]
    /\ size \in 0 .. Cardinality(Linked)
    /\ \A i \in 1 .. Len(vnodes) : vnodes[i] \in
          [val : Value \cup {Removed}, ts : Invalid .. clock, below : SUBSET (1 .. i - 1)]
    /\ trained \subseteq Key
    /\ \A t \in Thread : local[t] \in Locals
    /\ done \in [Key -> SUBSET VersionId] /\ late \in [Key -> SUBSET VersionId]
    /\ retired \subseteq VersionId

\* LinkedKept: no node is lost by the replacement of the list: the model is
\* trained with exactly the keys that were ever linked, whoever inserts while
\* several threads freeze and collect.
LinkedKept == mob = "model" => trained = Linked

\* LostAreLate: an update survives the replacement if its version was pushed
\* before the node of its key was frozen.
LostAreLate ==
    mob = "model" =>
        \A k \in trained : Chain(vhead[k]) \ late[k] \subseteq Chain(mhead[k])

\* CompletedSeen: a range query finds every update that had returned when the query
\* took its timestamp, also when the list is replaced while it reads, unless the
\* replacement itself lost the update.
CompletedSeen ==
    \A t \in Thread : local[t].seen # "null" =>
        \A k \in Key : k < local[t].at =>
            \A i \in local[t].tick[k] :
                i \in Chain(local[t].got[k]) \/ (mob = "model" /\ i \notin Chain(mhead[k]))

\* ReclaimSound: reclaimMem finds every pointer frozen, as it asserts, and never
\* compares (and retires) a version that has no timestamp yet.
ReclaimSound ==
    /\ (\E t \in Thread : At(t, "reclaim")) => Linked \cup {MinNode} \subseteq frozen
    /\ \A i \in retired : vnodes[i].ts # Invalid

\* CallsReturn: insert, remove and range queries return, although other threads may
\* have stopped anywhere, in the middle of a collect too.
CallsReturn == \A t \in Thread \ Stalled : ~At(t, "idle") ~> At(t, "idle")

\* UpdateKept: the version of an insert or remove that has returned is on the list
\* that mobs_lf leads to.  The comment at the return says "version list has
\* changed".
UpdateKept ==
    \A k \in Key : done[k] \subseteq Chain(IF mob = "model" THEN mhead[k] ELSE vhead[k])

=============================================================================
