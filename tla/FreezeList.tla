----------------------------- MODULE FreezeList -----------------------------
(***************************************************************************)
(* The lock-free list that holds the keys of a leaf of a bin (Linked_List  *)
(* of Kanva_impl).  It is Harris' list with a second bit in the pointers:  *)
(* a marked node is logically removed and is unlinked by whoever meets it; *)
(* collect freezes the pointers one after the other, from the head on,     *)
(* while other threads still update the list, and returns the keys it      *)
(* passed.  Updates that meet a frozen pointer give up.                    *)
(*                                                                         *)
(* A word is what an atomic next holds: the node it points to and the two  *)
(* bits.  Values are left out: they are written before a node is linked    *)
(* and never change.                                                       *)
(***************************************************************************)
EXTENDS Integers, Sequences, FiniteSets

CONSTANTS
    Thread,         \* the threads of the program
    Stalled,        \* the threads that the scheduler may abandon
    NKeys,          \* the keys are 1 .. NKeys
    MaxCalls,       \* bound: the calls of operations
    MaxNode,        \* bound: the nodes of the list without its sentinels
    MaxStart        \* bound: the nodes that split_root put in the list

ASSUME BoundsAssumption ==
    /\ IsFiniteSet(Thread)
    /\ NKeys \in Nat \ {0}
    /\ MaxCalls \in Nat
    /\ MaxNode \in Nat
    /\ MaxStart \in 0 .. MaxNode

Key == 1 .. NKeys

\* Nodes are numbered in the order in which they were linked.
NodeId == 0 .. MaxNode + 1
HeadId == 0                       \* its key is numeric_limits<K>::min()
TailId == MaxNode + 1             \* its key is numeric_limits<K>::max()
Null == -1                      \* nullptr

Word == [to : NodeId \cup {Null}, mark : BOOLEAN, freeze : BOOLEAN]

VARIABLES
    nkey,           \* nkey[n]: ll_Node::key
    next,           \* next[n]: ll_Node::next
    fresh,          \* the number of the next node
    pc,             \* pc[t]: the statement t is about to execute
    op,             \* op[t]: the operation t executes
    key,            \* key[t]: its argument
    left, right,    \* left_node (prev_node) and right_node of t
    word,           \* word[t]: right_next
    got,            \* got[t]: the nodes whose keys t's collect has pushed
    result,         \* result[t]: what t's operation returns
    calls,          \* the calls so far
    \* history
    seen,           \* seen[t]: whether key[t] was in the set at moments of t's call
    closed          \* a call of collect has returned

list == <<nkey, next, fresh>>
locals == <<left, right, word, got>>
call == <<op, key>>
vars == <<list, pc, call, locals, result, calls, seen, closed>>

Clean(n) == [to |-> n, mark |-> FALSE, freeze |-> FALSE]

Allocated == 1 .. fresh - 1

\* An empty list, or the list that split_root fills with ascending keys.
Init ==
    /\ fresh \in 1 .. MaxStart + 1
    /\ nkey \in {f \in [NodeId -> 0 .. NKeys + 1] :
            /\ f[HeadId] = 0
            /\ f[TailId] = NKeys + 1
            /\ \A n \in Allocated : f[n] \in Key /\ f[n - 1] < f[n]
            /\ \A n \in fresh .. MaxNode : f[n] = 0}
    /\ next = [n \in NodeId |-> Clean(IF n = TailId THEN Null
                                      ELSE IF n + 1 < fresh THEN n + 1 ELSE TailId)]
    /\ pc = [t \in Thread |-> "idle"]
    /\ op = [t \in Thread |-> "none"]
    /\ key = [t \in Thread |-> 1]
    /\ left = [t \in Thread |-> HeadId]
    /\ right = [t \in Thread |-> HeadId]
    /\ word = [t \in Thread |-> Clean(TailId)]
    /\ got = [t \in Thread |-> <<>>]
    /\ result = [t \in Thread |-> "none"]
    /\ calls = 0
    /\ seen = [t \in Thread |-> {}]
    /\ closed = FALSE

Goto(t, from, to) ==
    /\ pc[t] = from
    /\ pc' = [pc EXCEPT ![t] = to]

\* t's operation returns res, and its locals go out of scope.
Respond(t, from, res) ==
    /\ Goto(t, from, "return")
    /\ result' = [result EXCEPT ![t] = res]
    /\ key' = [key EXCEPT ![t] = 1]
    /\ left' = [left EXCEPT ![t] = HeadId]
    /\ right' = [right EXCEPT ![t] = HeadId]
    /\ word' = [word EXCEPT ![t] = Clean(TailId)]
    /\ UNCHANGED op

\* compare_exchange_strong on next of node n
CAS(n, expected, new) ==
    /\ next[n] = expected
    /\ next' = [next EXCEPT ![n] = new]

\* The history of a call: t notes whether its key is in the set, that is,
\* whether a node with the key is not marked.
Observe ==
    LET keys == {nkey'[n] : n \in {m \in 1 .. fresh' - 1 : ~ next'[m].mark}}
        k(t) == IF pc[t] = "idle" THEN key'[t] ELSE key[t]
    IN  seen' = [t \in Thread |->
            IF op'[t] \in {"none", "collect"} THEN {}
              ELSE IF pc[t] = "return" THEN seen[t]
              ELSE seen[t] \cup (IF k(t) \in keys THEN {TRUE} ELSE {FALSE})]

-----------------------------------------------------------------------------
(* Calls and returns *)

\* insertNone is the call of insert with the value -1.
Updates == {"insert", "insertNone", "remove"}

\* Bounds: as many calls as MaxCalls, as many inserts as there are nodes.
Call(t, o, k) ==
    /\ calls < MaxCalls
    /\ calls' = calls + 1
    /\ o = "collect" => k = 1
    /\ o = "insert" => fresh + Cardinality({u \in Thread : op[u] = "insert"}) <= MaxNode
    /\ Goto(t, "idle", IF o \in Updates THEN "find" ELSE o)
    /\ op' = [op EXCEPT ![t] = o]
    /\ key' = [key EXCEPT ![t] = k]
    /\ UNCHANGED <<list, locals, result, closed>>

Return(t) ==
    /\ Goto(t, "return", "idle")
    /\ op' = [op EXCEPT ![t] = "none"]
    /\ got' = [got EXCEPT ![t] = <<>>]
    /\ result' = [result EXCEPT ![t] = "none"]
    /\ UNCHANGED <<list, key, left, right, word, closed>>

-----------------------------------------------------------------------------
(* find: the first node with a key of at least key[t], and its predecessor *)

\* The two loads of head->next are one step: once the pointer is frozen the
\* second one reads what it was when it was frozen.
FindFromHead(t) ==
    /\ ~ next[HeadId].freeze
    /\ Goto(t, "find", "findRight")
    /\ left' = [left EXCEPT ![t] = HeadId]
    /\ right' = [right EXCEPT ![t] = next[HeadId].to]
    /\ UNCHANGED <<list, call, word, got, result, closed>>

\* find returns nullptr and its caller -1.
FindFrozen(t) ==
    /\ \/ next[HeadId].freeze /\ Respond(t, "find", "frozen")
       \/ next[right[t]].freeze /\ Respond(t, "findRight", "frozen")
    /\ UNCHANGED <<list, got, closed>>

FindMarked(t) ==
    LET w == next[right[t]] IN
    /\ w.mark /\ ~ w.freeze
    /\ Goto(t, "findRight", "findUnlink")
    /\ word' = [word EXCEPT ![t] = w]
    /\ UNCHANGED <<list, call, left, right, got, result, closed>>

\* Mutant: find waits for the thread that marked the node to unlink it.
FindUnlinkWait(t) ==
    /\ Goto(t, "findUnlink", "find")
    /\ UNCHANGED <<list, call, locals, result, closed>>

FindUnlink(t) ==
    /\ CAS(left[t], Clean(right[t]), Clean(word[t].to))
    /\ Goto(t, "findUnlink", "findRight")
    /\ right' = [right EXCEPT ![t] = word[t].to]
    /\ UNCHANGED <<nkey, fresh, call, left, word, got, result, closed>>

FindRetry(t) ==
    /\ next[left[t]] # Clean(right[t])
    /\ Goto(t, "findUnlink", "find")
    /\ UNCHANGED <<list, call, locals, result, closed>>

Advance(t) ==
    LET w == next[right[t]] IN
    /\ ~ w.mark /\ ~ w.freeze
    /\ Goto(t, "findRight", "findRight")
    /\ left' = [left EXCEPT ![t] = right[t]]
    /\ right' = [right EXCEPT ![t] = w.to]
    /\ UNCHANGED <<list, call, word, got, result, closed>>

\* Mutant: the comparison with the key is missing.
FindAdvanceAlways(t) == Advance(t)

\* Mutant: nodes with the key itself are passed.
FindAdvanceEqual(t) == nkey[right[t]] <= key[t] /\ Advance(t)

FindAdvance(t) == nkey[right[t]] < key[t] /\ Advance(t)

\* find returns right_node.  insert of a key that is there, or of the value -1,
\* and remove of a key that is not there, have nothing to do.
FindEnds(t) ==
    LET w == next[right[t]]
        here == nkey[right[t]] = key[t]
    IN  /\ ~ w.mark /\ ~ w.freeze
        /\ nkey[right[t]] >= key[t]
        /\ \/ /\ (op[t] = "insert" /\ ~ here) \/ (op[t] = "remove" /\ here)
              /\ Goto(t, "findRight", IF here THEN "load" ELSE "link")
              /\ UNCHANGED <<result, call, left, right, word>>
           \/ /\ op[t] = "insertNone" \/ here = (op[t] = "insert")
              /\ Respond(t, "findRight", "no")
        /\ UNCHANGED <<list, got, closed>>

-----------------------------------------------------------------------------
(* insert *)

Link(t) ==
    /\ next' = [next EXCEPT ![fresh] = Clean(right[t]), ![left[t]].to = fresh]
    /\ nkey' = [nkey EXCEPT ![fresh] = key[t]]
    /\ fresh' = fresh + 1
    /\ Respond(t, "link", "yes")
    /\ UNCHANGED <<got, closed>>

\* Mutant: the comparison ignores the freeze bit.
InsertIgnoresFreeze(t) ==
    /\ next[left[t]] \in {Clean(right[t]), [Clean(right[t]) EXCEPT !.freeze = TRUE]}
    /\ Link(t)

\* Mutant: the comparison ignores the mark.
InsertIgnoresMark(t) ==
    /\ next[left[t]] \in {Clean(right[t]), [Clean(right[t]) EXCEPT !.mark = TRUE]}
    /\ Link(t)

Insert(t) == next[left[t]] = Clean(right[t]) /\ Link(t)

\* prev_node is marked, frozen or has another successor: find again.
InsertRetry(t) ==
    /\ next[left[t]] # Clean(right[t])
    /\ Goto(t, "link", "find")
    /\ UNCHANGED <<list, call, locals, result, closed>>

-----------------------------------------------------------------------------
(* remove *)

RemoveLoad(t) ==
    /\ Goto(t, "load", IF next[right[t]].mark THEN "unlink" ELSE "mark")
    /\ word' = [word EXCEPT ![t] = next[right[t]]]
    /\ UNCHANGED <<list, call, left, right, got, result, closed>>

\* The pointer may be frozen: the mark is added to it.
RemoveMark(t) ==
    /\ CAS(right[t], word[t], [word[t] EXCEPT !.mark = TRUE])
    /\ Goto(t, "mark", "unlink")
    /\ UNCHANGED <<nkey, fresh, call, locals, result, closed>>

RemoveRetry(t) ==
    /\ next[right[t]] # word[t]
    /\ Goto(t, "mark", "find")
    /\ UNCHANGED <<list, call, locals, result, closed>>

\* The result of the compare-and-swap is ignored.
RemoveUnlink(t) ==
    /\ \/ CAS(left[t], Clean(right[t]), [word[t] EXCEPT !.mark = FALSE])
       \/ next[left[t]] # Clean(right[t]) /\ UNCHANGED next
    /\ Respond(t, "unlink", "yes")
    /\ UNCHANGED <<nkey, fresh, got, closed>>

-----------------------------------------------------------------------------
(* search *)

SearchNext(t) ==
    /\ Goto(t, "search", "search")
    /\ nkey[left[t]] < key[t]
    /\ left' = [left EXCEPT ![t] = next[left[t]].to]
    /\ UNCHANGED <<list, call, right, word, got, result, closed>>

SearchEndsWith(t, found) ==
    /\ nkey[left[t]] >= key[t]
    /\ Respond(t, "search", IF found THEN "yes" ELSE "no")
    /\ UNCHANGED <<list, got, closed>>

\* Mutant: the mark is not tested.
SearchEndsAny(t) == SearchEndsWith(t, nkey[left[t]] = key[t])

SearchEnds(t) == SearchEndsWith(t, nkey[left[t]] = key[t] /\ ~ next[left[t]].mark)

-----------------------------------------------------------------------------
(* collect *)

\* The loop around the compare-and-swap: a failed one changes nothing and is
\* repeated.
CollectFreeze(t) ==
    /\ left[t] # TailId
    /\ next' = [next EXCEPT ![left[t]].freeze = TRUE]
    /\ Goto(t, "collect", "collectRead")
    /\ UNCHANGED <<nkey, fresh, call, locals, result, closed>>

\* The successor is pushed unless the pointer to it is marked.
CollectRead(t) ==
    LET w == next[left[t]] IN
    /\ Goto(t, "collectRead", "collect")
    /\ got' = [got EXCEPT ![t] = IF w.mark THEN @ ELSE Append(@, w.to)]
    /\ left' = [left EXCEPT ![t] = w.to]
    /\ UNCHANGED <<list, call, right, word, result, closed>>

\* Mutant: the sentinel stays in the result.
CollectKeepLast(t) ==
    /\ left[t] = TailId
    /\ Respond(t, "collect", "yes")
    /\ closed' = TRUE
    /\ UNCHANGED <<list, got>>

\* pop_back
CollectEnd(t) ==
    /\ left[t] = TailId
    /\ got' = [got EXCEPT ![t] = SubSeq(@, 1, Len(@) - 1)]
    /\ Respond(t, "collect", "yes")
    /\ closed' = TRUE
    /\ UNCHANGED list

-----------------------------------------------------------------------------
Step(t) ==
    \/ FindFromHead(t) \/ FindFrozen(t) \/ FindMarked(t) \/ FindUnlink(t) \/ FindRetry(t)
    \/ FindAdvance(t) \/ FindEnds(t)
    \/ Insert(t) \/ InsertRetry(t)
    \/ RemoveLoad(t) \/ RemoveMark(t) \/ RemoveRetry(t) \/ RemoveUnlink(t)
    \/ SearchNext(t) \/ SearchEnds(t)
    \/ CollectFreeze(t) \/ CollectRead(t) \/ CollectEnd(t)
    \/ Return(t)

Next ==
    /\ \E t \in Thread :
          \/ Step(t) /\ UNCHANGED calls
          \/ \E o \in Updates \cup {"search", "collect"}, k \in Key : Call(t, o, k)
    /\ Observe

Spec == Init /\ [][Next]_vars

\* The scheduler runs every thread except those of Stalled.
FairSpec == Spec /\ \A t \in Thread \ Stalled : WF_vars(Step(t) /\ Observe /\ UNCHANGED calls)

-----------------------------------------------------------------------------
(* Properties *)

PC == {"idle", "find", "findRight", "findUnlink", "link", "load", "mark", "unlink", "search",
       "collect", "collectRead", "return"}

\* Every variable has its type; in particular no pointer a thread is going to
\* dereference is nullptr.
TypeOK ==
    /\ nkey \in [NodeId -> 0 .. NKeys + 1]
    /\ next \in [NodeId -> Word]
    /\ fresh \in 1 .. MaxNode + 1
    /\ pc \in [Thread -> PC]
    /\ op \in [Thread -> Updates \cup {"search", "collect", "none"}]
    /\ key \in [Thread -> Key]
    /\ left \in [Thread -> NodeId]
    /\ right \in [Thread -> NodeId]
    /\ word \in [Thread -> Word]
    /\ \A t \in Thread : got[t] \in Seq(NodeId)
    /\ result \in [Thread -> {"none", "frozen", "yes", "no"}]
    /\ calls \in 0 .. MaxCalls
    /\ seen \in [Thread -> SUBSET BOOLEAN]
    /\ closed \in BOOLEAN

Linked == {HeadId} \cup Allocated

\* Keys ascend along the pointers, of removed nodes too: traversals end, and no
\* key is in the list twice.
Sorted == \A n \in Linked : nkey[n] < nkey[next[n].to]

\* The nodes on the way from the head: every set that contains the head and,
\* with a node, its successor contains them.
InList(n) ==
    \A S \in SUBSET Linked :
        HeadId \in S /\ (\A p \in S : next[p].to \in S \cup {TailId}) => n \in S

\* A key that was inserted and not removed can be reached from the head: no
\* unlinking of a neighbour, and no freezing, loses it.
LiveReachable == \A n \in Allocated : ~ next[n].mark => InList(n)

\* Every result is justified by a moment of the call at which the set was as
\* the result says; a successful update has seen the key both ways.
ResultsWitnessed ==
    \A t \in Thread : pc[t] = "return" /\ op[t] # "collect" =>
        /\ result[t] = "yes" => (IF op[t] = "search" THEN {TRUE} ELSE BOOLEAN) \subseteq seen[t]
        /\ result[t] = "no" /\ op[t] = "insert" => TRUE \in seen[t]
        /\ result[t] = "no" /\ op[t] \in {"remove", "search"} => FALSE \in seen[t]

\* As long as nothing has been removed, collect returns the keys of the list in
\* ascending order, whatever inserts and other calls of collect ran with it.
CollectExact ==
    \A t \in Thread :
        pc[t] = "return" /\ op[t] = "collect" /\ (\A n \in Allocated : ~ next[n].mark) =>
            /\ {got[t][i] : i \in DOMAIN got[t]} = Allocated
            /\ \A i \in 1 .. Len(got[t]) - 1 : nkey[got[t][i]] < nkey[got[t][i + 1]]

\* NothingInsertedLate: when a call of collect has returned, the list takes no more
\* keys: an insert into a leaf that has been split would lose them.
NothingInsertedLate == [][closed => fresh' = fresh]_vars

-----------------------------------------------------------------------------
(* The list implements a set that can be frozen.                            *)

\* The keys of the set.
Present == {nkey[n] : n \in {m \in Allocated : ~ next[m].mark}}

\* The keys of removed nodes.
Dropped == {nkey[n] : n \in {m \in Allocated : next[m].mark}}

\* Freezing has begun when a pointer is frozen, and ended when a collect has returned.
Frozen == \E n \in Linked : next[n].freeze
ListState == IF closed THEN "closed" ELSE IF Frozen THEN "freezing" ELSE "open"

\* The key of a call under way, and the keys that a collect returns.
Arg == [t \in Thread |-> IF op[t] # "none" /\ result[t] = "none" THEN key[t] ELSE 0]
Taken == [t \in Thread |-> IF op[t] = "collect" /\ result[t] # "none"
                             THEN {nkey[got[t][i]] : i \in DOMAIN got[t]} ELSE {}]

Set == INSTANCE FreezableSet WITH
    keys <- Present, list <- ListState, dropped <- Dropped,
    arg <- Arg, answer <- result, taken <- Taken

\* ImplementsSet: the list is a set whose updates take effect in one step each,
\* which refuses them only while it is frozen, takes no key after a collect has
\* returned, and gives every collect its keys, provided that none was ever
\* removed: what the bin relies on.
ImplementsSet == Set!Spec

\* Every call returns although other threads may have stopped anywhere, once
\* the competing updates are finitely many.
CallsReturn == \A t \in Thread \ Stalled : pc[t] # "idle" ~> pc[t] = "return"

=============================================================================
