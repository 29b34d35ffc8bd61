----------------------------- MODULE TrackerList -----------------------------
(***************************************************************************)
(* The version tracker of Kanva_RS: a lock-free singly linked list of      *)
(* TrackerNodes, one for each range query, that ends in sentinel_last.     *)
(* add_timestamp appends a node with two compare-and-swaps (link the node, *)
(* then move the tail), other threads help a tail that lags, rangequery    *)
(* sets the node's finish flag when it is done, and remove_head skips      *)
(* finished nodes to report the oldest timestamp.                          *)
(*                                                                         *)
(* A step makes at most one access to memory another thread may write,     *)
(* except where a comment says why two are joined.  A node is named by the *)
(* order in which it was linked; the nodes that lose the race in           *)
(* add_timestamp are never reachable and are not represented.              *)
(***************************************************************************)
EXTENDS Naturals, FiniteSets

CONSTANTS
    Thread,         \* the threads of the program
    Stalled,        \* the threads that the scheduler may abandon
    MaxNode         \* bound: the name of the last node that may be linked

ASSUME MaxNodeAssumption == MaxNode \in Nat

VARIABLES
    ts,             \* ts[n]: TrackerNode::ts
    next,           \* next[n]: TrackerNode::next
    finish,         \* finish[n]: TrackerNode::finish
    head,           \* TrackerList::head
    tail,           \* TrackerList::tail
    fresh,          \* the name of the next node to be linked
    pc,             \* pc[t]: the statement t is about to execute
    cur,            \* cur[t]: the local variable curr_tail or curr_head
    mine,           \* mine[t]: new_tail, then the tracker_node of rangequery
    oldest          \* oldest[t]: the last result of get_oldest_timestamp

list == <<ts, next, finish, head, tail, fresh>>
vars == <<ts, next, finish, head, tail, fresh, pc, cur, mine, oldest>>

NodeId == 0 .. MaxNode
Sentinel == MaxNode + 1                 \* sentinel_last
Linked == {n \in NodeId : n < fresh}    \* the nodes of the list

\* The constructor: node 0 carries timestamp 0 and is head and tail.
Init ==
    /\ ts = [n \in NodeId |-> 0]
    /\ next = [n \in NodeId |-> Sentinel]
    /\ finish = [n \in NodeId |-> FALSE]
    /\ head = 0
    /\ tail = 0
    /\ fresh = 1
    /\ pc = [t \in Thread |-> "idle"]
    /\ cur = [t \in Thread |-> 0]
    /\ mine = [t \in Thread |-> 0]
    /\ oldest = [t \in Thread |-> 0]

Goto(t, from, to) ==
    /\ pc[t] = from
    /\ pc' = [pc EXCEPT ![t] = to]

\* What a writer reads when it stamps a version: two reads, of the tail and of
\* a field that never changes, are one.
get_latest_timestamp == ts[tail]

-----------------------------------------------------------------------------
(* add_timestamp, called by rangequery *)

\* The threads inside add_timestamp that have not linked their node.
Adding == {t \in Thread : pc[t] \in {"loadTail", "link", "help", "helpCheck", "helpSwing"}}

\* Bound: calls are made only while there are names for their nodes.
Begin(t) ==
    /\ fresh + Cardinality(Adding) <= MaxNode
    /\ Goto(t, "idle", "loadTail")
    /\ UNCHANGED <<list, cur, mine, oldest>>

LoadTail(t) ==
    /\ Goto(t, "loadTail", "link")
    /\ cur' = [cur EXCEPT ![t] = tail]
    /\ UNCHANGED <<list, mine, oldest>>

LinkWith(t, stamp) ==
    /\ fresh <= MaxNode
    /\ Goto(t, "link", "swing")
    /\ ts' = [ts EXCEPT ![fresh] = stamp]
    /\ next' = [next EXCEPT ![cur[t]] = fresh]
    /\ mine' = [mine EXCEPT ![t] = fresh]
    /\ fresh' = fresh + 1
    /\ UNCHANGED <<finish, head, tail, cur, oldest>>

\* Mutant: the new node repeats the timestamp of the old tail.
LinkSameTime(t) == next[cur[t]] = Sentinel /\ LinkWith(t, ts[cur[t]])

\* The first compare-and-swap succeeds.  The node is created here because
\* nobody sees it earlier; its timestamp comes from the tail that t loaded.
LinkNew(t) == next[cur[t]] = Sentinel /\ LinkWith(t, ts[cur[t]] + 1)

\* The first compare-and-swap fails: another thread linked a node here.
LinkFail(t) ==
    /\ next[cur[t]] # Sentinel
    /\ Goto(t, "link", "help")
    /\ UNCHANGED <<list, cur, mine, oldest>>

\* Mutant: add_timestamp returns once the node is linked.
SwingNothing(t) ==
    /\ Goto(t, "swing", "active")
    /\ UNCHANGED <<list, cur, mine, oldest>>

\* The second compare-and-swap, whose result the code ignores.
SwingTail(t) ==
    /\ Goto(t, "swing", "active")
    /\ tail' = IF tail = cur[t] THEN mine[t] ELSE tail
    /\ UNCHANGED <<ts, next, finish, head, fresh, cur, mine, oldest>>

\* The helping loop.
HelpLoad(t) ==
    /\ Goto(t, "help", "helpCheck")
    /\ cur' = [cur EXCEPT ![t] = tail]
    /\ UNCHANGED <<list, mine, oldest>>

\* Mutant: the test for the sentinel is missing.
HelpAlways(t) ==
    /\ Goto(t, "helpCheck", "helpSwing")
    /\ UNCHANGED <<list, cur, mine, oldest>>

HelpCheck(t) ==
    /\ Goto(t, "helpCheck", IF next[cur[t]] = Sentinel THEN "loadTail" ELSE "helpSwing")
    /\ UNCHANGED <<list, cur, mine, oldest>>

HelpWith(t, node) ==
    /\ Goto(t, "helpSwing", "help")
    /\ tail' = node
    /\ UNCHANGED <<ts, next, finish, head, fresh, cur, mine, oldest>>

\* Mutant: wait for the owner of the node instead of helping it.
HelpNothing(t) == HelpWith(t, tail)

\* The second read of next and the compare-and-swap are one step: next is no
\* longer the sentinel and never changes again.
HelpSwing(t) == HelpWith(t, IF tail = cur[t] THEN next[cur[t]] ELSE tail)

\* The range query has its results: tracker_node->finish = true.
Finish(t) ==
    /\ Goto(t, "active", "idle")
    /\ finish' = [finish EXCEPT ![mine[t]] = TRUE]
    /\ UNCHANGED <<ts, next, head, tail, fresh, cur, mine, oldest>>

-----------------------------------------------------------------------------
(* get_oldest_timestamp, called after a bin has been replaced by a model *)

CallRemoveHead(t) ==
    /\ Goto(t, "idle", "loadHead")
    /\ UNCHANGED <<list, cur, mine, oldest>>

LoadHead(t) ==
    /\ Goto(t, "loadHead", "checkHead")
    /\ cur' = [cur EXCEPT ![t] = head]
    /\ UNCHANGED <<list, mine, oldest>>

\* One turn of the loop of remove_head: skip the node and load the head again,
\* or return.
SkipHead(t, skip) ==
    IF skip
    THEN /\ Goto(t, "checkHead", "loadHead")
         /\ head' = IF head = cur[t] THEN next[cur[t]] ELSE head
         /\ UNCHANGED <<ts, next, finish, tail, fresh, cur, mine, oldest>>
    ELSE /\ Goto(t, "checkHead", "idle")
         /\ oldest' = [oldest EXCEPT ![t] = ts[cur[t]]]
         /\ UNCHANGED <<list, cur, mine>>

\* Mutant: nodes whose range query is still running are skipped too.
CheckNextOnly(t) == SkipHead(t, next[cur[t]] # Sentinel)

\* A finished node that has a successor is skipped.  finish and a next that is
\* not the sentinel never change back, so test and compare-and-swap are one.
CheckHead(t) == SkipHead(t, finish[cur[t]] /\ next[cur[t]] # Sentinel)

-----------------------------------------------------------------------------
Add(t) ==
    \/ LoadTail(t) \/ LinkNew(t) \/ LinkFail(t) \/ SwingTail(t)
    \/ HelpLoad(t) \/ HelpCheck(t) \/ HelpSwing(t)

RemoveHead(t) == LoadHead(t) \/ CheckHead(t)

Next ==
    \E t \in Thread :
        Begin(t) \/ Add(t) \/ Finish(t) \/ CallRemoveHead(t) \/ RemoveHead(t)

Spec == Init /\ [][Next]_vars

-----------------------------------------------------------------------------
(* Properties *)

PC == {"idle", "loadTail", "link", "swing", "help", "helpCheck", "helpSwing",
       "active", "loadHead", "checkHead"}

\* Every variable has its type; locals hold names of nodes.
TypeOK ==
    /\ ts \in [NodeId -> Nat]
    /\ next \in [NodeId -> NodeId \cup {Sentinel}]
    /\ finish \in [NodeId -> BOOLEAN]
    /\ head \in NodeId
    /\ tail \in NodeId
    /\ fresh \in 1 .. MaxNode + 1
    /\ pc \in [Thread -> PC]
    /\ cur \in [Thread -> NodeId]
    /\ mine \in [Thread -> NodeId]
    /\ oldest \in [Thread -> Nat]

\* The range query of t is running with the timestamp of its node.
Active(t) == pc[t] = "active"

\* A thread that stamps a version after a range query obtained its timestamp
\* reads a value at least as large: the query cannot see the version.  This
\* depends on the tail having been moved, by the query or by a helper, before
\* add_timestamp returns although the result of its second CAS is ignored.
TimestampPublished ==
    \A t \in Thread : Active(t) => get_latest_timestamp >= ts[mine[t]]

\* Two range queries never run with the same timestamp, although two calls of
\* add_timestamp may have created nodes from the same tail.
TimestampsUnique ==
    \A t, u \in Thread :
        t # u /\ pc[t] \in {"swing", "active"} /\ pc[u] \in {"swing", "active"}
            => ts[mine[t]] # ts[mine[u]]

\* The tail lags behind the last node by at most one, so that one turn of the
\* helping loop suffices whatever threads were suspended between the two CASes.
TailLagsByOne ==
    next[tail] = Sentinel \/ next[next[tail]] = Sentinel

\* get_oldest_timestamp never reports a value above the timestamp of a range
\* query that is still running: reclaimMem retires the versions up to it.
OldestIsSafe ==
    [][\A t, u \in Thread :
          pc[t] = "checkHead" /\ pc'[t] = "idle" /\ Active(u)
              => oldest'[t] < ts[mine[u]]]_vars

\* The clock never runs backwards, whichever helper moves the tail last.
ClockMonotone == [][get_latest_timestamp' \in {get_latest_timestamp, get_latest_timestamp + 1}]_vars

\* The mapping to VersionClock.  A query has its timestamp as soon as the tail
\* has reached its node, whichever thread moved the tail there.
Stamped(t) == pc[t] \in {"swing", "active"} /\ ts[tail] >= ts[mine[t]]

callMap ==
    [t \in Thread |->
        IF Stamped(t) THEN "stamped"
        ELSE IF pc[t] \in {"idle", "loadHead", "checkHead"} THEN "idle"
        ELSE "pending"]

stampMap == [t \in Thread |-> IF Stamped(t) THEN ts[mine[t]] ELSE 0]

Clock == INSTANCE VersionClock WITH
    clock <- get_latest_timestamp, call <- callMap, stamp <- stampMap, floor <- ts[head]

\* The two compare-and-swaps of add_timestamp and the helping of others look
\* like one atomic step that increments the clock and hands out its new value.
ImplementsClock == Clock!Spec

-----------------------------------------------------------------------------
(* Liveness *)

\* The scheduler runs every thread except those of Stalled, which may be
\* suspended for ever at any statement.
FairSpec == Spec /\ \A t \in Thread \ Stalled : WF_vars(Add(t) \/ RemoveHead(t))

\* add_timestamp returns even if other threads stopped between the two CASes,
\* once the competing calls are finitely many (Begin bounds them).
AddReturns ==
    \A t \in Thread \ Stalled : pc[t] = "loadTail" ~> pc[t] = "active"

=============================================================================
