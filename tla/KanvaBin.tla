------------------------------ MODULE KanvaBin ------------------------------
(***************************************************************************)
(* One position of the mobs_lf array of a KanvaModel: first empty, then a  *)
(* Bin (a two-level tree of lists, Kanva_impl/Bin_LL/Bin.h), finally a     *)
(* model trained from the keys of the bin                                  *)
(* (Kanva_impl/kanva_model_impl.h).  Threads insert keys and look them up. *)
(*                                                                         *)
(* A leaf's list is used through what module FreezeList checks of it: when *)
(* one collect has ended the list is closed and its keys are fixed; an     *)
(* insert may fail only after some collect began, and may link its key     *)
(* only before the first collect ended.                                    *)
(*                                                                         *)
(* A root is the value [seps, kids, marked]: separators, leaf identifiers, *)
(* and the mark bit of the pointer to it.  A root that is itself a leaf    *)
(* has no separators and one kid.  Nothing is freed and every new root has *)
(* new leaves, so equal values are the same pointer.                       *)
(***************************************************************************)
EXTENDS Integers, FiniteSets, Sequences, SequencesExt, TLC

CONSTANTS
    Threads,    \* threads that call insert_retrain and find_retrain
    Stalled,    \* threads that may stop for ever at any step
    Keys,       \* keys that belong to this position of the array
    ChildMax,   \* child_max: a leaf with this count is split
    RootMax,    \* root_max: a root with this many separators is retrained
    MaxCalls    \* bound: calls made in a behaviour

ASSUME KeysArePositive == Keys \subseteq Nat \ {0} /\ IsFiniteSet(Keys)
ASSUME LimitsAreUsable == ChildMax \in Nat \ {0, 1} /\ RootMax \in Nat \ {0} /\ MaxCalls \in Nat
ASSUME StalledAreThreads == Stalled \subseteq Threads /\ IsFiniteSet(Threads)

VARIABLES
    mob,        \* what mobs_lf[bin_pos] points to
    root,       \* the root pointer of the bin
    leaves,     \* the leaves ever installed, by identifier
    trained,    \* the keys of the model, as the key sets of the leaves in order
    deep,       \* keys inserted below the trained model
    pc, key,    \* the step a thread is at, and the key of its call
    seen,       \* the root a thread loaded
    at,         \* the index of the kid it works on
    calls,      \* calls made so far
    linked,     \* history: keys an insert has put into a list or a model
    told,       \* history: keys an insert returned true for
    was         \* history: the key of a find was linked when the find began

vars == <<mob, root, leaves, trained, deep, pc, key, seen, at, calls,
          linked, told, was>>

bin == <<mob, root, leaves, trained, deep>>
local == <<key, seen, at>>
history == <<linked, told, was>>

\* No root loaded yet, and no key.
NoRoot == [seps |-> <<>>, kids |-> <<>>, marked |-> FALSE]
NoKey == 0

\* A leaf made by the constructor of Bin or by split_root.
Leaf(S, n) == [keys |-> S, count |-> n, list |-> "open"]

\* The count of the first leaf is never set: it starts with whatever the
\* allocation holds.  Values from child_max on would split an empty list, which
\* reads the first element of an empty vector and ends the program.
FirstCount == 0 .. (ChildMax - 1)

Init ==
    /\ mob = "null"
    /\ root = NoRoot
    /\ leaves = <<>>
    /\ trained = <<>>
    /\ deep = {}
    /\ pc = [t \in Threads |-> "idle"]
    /\ key = [t \in Threads |-> NoKey]
    /\ seen = [t \in Threads |-> NoRoot]
    /\ at = [t \in Threads |-> 0]
    /\ calls = 0
    /\ linked = {}
    /\ told = {}
    /\ was = [t \in Threads |-> FALSE]

Goto(t, step) == pc' = [pc EXCEPT ![t] = step]

\* The retry of Bin::insert: the root is loaded afresh.
Retry(t) ==
    /\ Goto(t, "root")
    /\ seen' = [seen EXCEPT ![t] = NoRoot]
    /\ at' = [at EXCEPT ![t] = 0]

\* The call of thread t ends: its locals are gone.
Leave(t) ==
    /\ pc' = [pc EXCEPT ![t] = "idle"]
    /\ key' = [key EXCEPT ![t] = NoKey]
    /\ seen' = [seen EXCEPT ![t] = NoRoot]
    /\ at' = [at EXCEPT ![t] = 0]

\* Mutant: the last separator is left out of the search.
RouteShort(r, k) == Cardinality({i \in 1 .. Len(r.seps) - 1 : r.seps[i] < k}) + 1

\* std::lower_bound over the separators: the kid for key k.
Route(r, k) == Cardinality({i \in DOMAIN r.seps : r.seps[i] < k}) + 1

IsLeaf(r) == Len(r.kids) = 1

\* The leaf thread t works on.
Child(t) == seen[t].kids[at[t]]

Ranged(r) == UNION {leaves[r.kids[i]].keys : i \in DOMAIN r.kids}

\* The keys a find can reach from mobs_lf[bin_pos].
Held == CASE mob = "null" -> {}
          [] mob = "bin" -> Ranged(root)
          [] mob = "model" -> (UNION {trained[i] : i \in DOMAIN trained}) \cup deep

-----------------------------------------------------------------------------
(* insert_model_or_bin: load the pointer, and make the bin if it is null.   *)

CallInsert(t, k) ==
    /\ pc[t] = "idle"
    /\ calls < MaxCalls
    /\ calls' = calls + 1
    /\ key' = [key EXCEPT ![t] = k]
    /\ Goto(t, "mob")
    /\ UNCHANGED <<bin, seen, at, history>>

\* Where insert goes with the pointer it has.
Dispatch(t, m) ==
    Goto(t, CASE m = "null" -> "new" [] m = "bin" -> "root" [] m = "model" -> "deep")

LoadMob(t) ==
    /\ pc[t] = "mob"
    /\ Dispatch(t, mob)
    /\ UNCHANGED <<bin, local, calls, history>>

\* The compare-and-swap of the null pointer; it fails when another thread was
\* faster, and then leaves that thread's pointer in mob.
NewBin(t) ==
    /\ pc[t] = "new"
    /\ mob = "null"
    /\ mob' = "bin"
    /\ \E n \in FirstCount : leaves' = <<Leaf({}, n)>>
    /\ root' = [seps |-> <<>>, kids |-> <<1>>, marked |-> FALSE]
    /\ Goto(t, "root")
    /\ UNCHANGED <<trained, deep, local, calls, history>>

NewBinFails(t) ==
    /\ pc[t] = "new"
    /\ mob # "null"
    /\ Dispatch(t, mob)
    /\ UNCHANGED <<bin, local, calls, history>>

-----------------------------------------------------------------------------
(* Bin::insert, with insert_leaf and insert_internal.                       *)

LoadRoot(t) ==
    /\ pc[t] = "root"
    /\ ~root.marked
    /\ seen' = [seen EXCEPT ![t] = root]
    /\ at' = [at EXCEPT ![t] = Route(root, key[t])]
    /\ Goto(t, "count")
    /\ UNCHANGED <<bin, key, calls, history>>

\* A marked root makes insert return false; insert_model_or_bin then collects.
LoadMarked(t) ==
    /\ pc[t] = "root"
    /\ root.marked
    /\ seen' = [seen EXCEPT ![t] = root]
    /\ at' = [at EXCEPT ![t] = 1]
    /\ Goto(t, "gather")
    /\ UNCHANGED <<bin, key, calls, history>>

\* Mutant: the limit on the separators is off by one.
SplitOrMarkLate(r) == IF Len(r.seps) <= RootMax THEN "collect" ELSE "mark"

\* A leaf that cannot take the key is split while the root has room for one
\* more separator; otherwise the root is marked.
SplitOrMark(r) == IF IsLeaf(r) \/ Len(r.seps) < RootMax THEN "collect" ELSE "mark"

TestCount(t) ==
    /\ pc[t] = "count"
    /\ Goto(t, IF leaves[Child(t)].count < ChildMax THEN "list" ELSE SplitOrMark(seen[t]))
    /\ UNCHANGED <<bin, local, calls, history>>

\* Mutant: the list's insert does not look at freeze bits.
ListLinksFrozen(t) ==
    /\ pc[t] = "list"
    /\ key[t] \notin leaves[Child(t)].keys
    /\ leaves' = [leaves EXCEPT ![Child(t)].keys = @ \cup {key[t]}]
    /\ linked' = linked \cup {key[t]}
    /\ Goto(t, "counted")
    /\ UNCHANGED <<mob, root, trained, deep, local, calls, told, was>>

\* The list's insert links the key.
ListLinks(t) ==
    /\ pc[t] = "list"
    /\ leaves[Child(t)].list # "closed"
    /\ key[t] \notin leaves[Child(t)].keys
    /\ leaves' = [leaves EXCEPT ![Child(t)].keys = @ \cup {key[t]}]
    /\ linked' = linked \cup {key[t]}
    /\ Goto(t, "counted")
    /\ UNCHANGED <<mob, root, trained, deep, local, calls, told, was>>

\* The key is in the list already: insert returns nullptr, then true.
ListHasKey(t) ==
    /\ pc[t] = "list"
    /\ leaves[Child(t)].list # "closed"
    /\ key[t] \in leaves[Child(t)].keys
    /\ told' = told \cup {key[t]}
    /\ Leave(t)
    /\ UNCHANGED <<bin, calls, linked, was>>

\* What follows the -1 of a frozen list.  insert_leaf keeps the result in a
\* bool, which is 1 for -1: it counts the key as inserted.  insert_internal
\* keeps it in an int and splits or marks.
AfterFrozen(r) == IF IsLeaf(r) THEN "counted" ELSE SplitOrMark(r)

ListFrozen(t) ==
    /\ pc[t] = "list"
    /\ leaves[Child(t)].list # "open"
    /\ Goto(t, AfterFrozen(seen[t]))
    /\ UNCHANGED <<bin, local, calls, history>>

\* Mutant: the count is not raised.
CountNever(t) ==
    /\ pc[t] = "counted"
    /\ told' = told \cup {key[t]}
    /\ Leave(t)
    /\ UNCHANGED <<bin, calls, linked, was>>

\* count++, then insert returns true.
CountUp(t) ==
    /\ pc[t] = "counted"
    /\ leaves' = [leaves EXCEPT ![Child(t)].count = @ + 1]
    /\ told' = told \cup {key[t]}
    /\ Leave(t)
    /\ UNCHANGED <<mob, root, trained, deep, calls, linked, was>>

\* data_array_list.collect: freezing begins, and ends at the last node.
Freeze(t) ==
    leaves' = [leaves EXCEPT ![Child(t)].list = IF @ = "open" THEN "freezing" ELSE @]

\* Mutant: a thread waits for the collect that another has begun.
CollectBeginAlone(t) ==
    /\ pc[t] = "collect"
    /\ leaves[Child(t)].list # "freezing"
    /\ Freeze(t)
    /\ Goto(t, "collecting")
    /\ UNCHANGED <<mob, root, trained, deep, local, calls, history>>

CollectBegin(t) ==
    /\ pc[t] = "collect"
    /\ Freeze(t)
    /\ Goto(t, "collecting")
    /\ UNCHANGED <<mob, root, trained, deep, local, calls, history>>

CollectEnd(t) ==
    /\ pc[t] = "collecting"
    /\ leaves' = [leaves EXCEPT ![Child(t)].list = "closed"]
    /\ Goto(t, "swing")
    /\ UNCHANGED <<mob, root, trained, deep, local, calls, history>>

\* split_root: the lower half, the upper half and the first key of the upper.
LowerHalf(S) == {k \in S : Cardinality({j \in S : j < k}) < Cardinality(S) \div 2}
UpperHalf(S) == S \ LowerHalf(S)
Separator(S) == CHOOSE k \in UpperHalf(S) : \A j \in UpperHalf(S) : k <= j

\* The new root: kid i of r gives way to its two halves, leaves n + 1 and n + 2.
SplitKid(r, i, sep, n) ==
    [r EXCEPT !.seps = InsertAt(@, i, sep),
              !.kids = InsertAt(ReplaceAt(@, i, n + 1), i + 1, n + 2)]

\* The compare-and-swap of the root; whether or not it succeeds, retry.
Swing(t) ==
    /\ pc[t] = "swing"
    /\ IF root = seen[t]
         THEN LET S == leaves[Child(t)].keys
                  L == LowerHalf(S)
                  U == UpperHalf(S)
              IN /\ root' = SplitKid(root, at[t], Separator(S), Len(leaves))
                 /\ leaves' = leaves \o <<Leaf(L, Cardinality(L)), Leaf(U, Cardinality(U))>>
         ELSE UNCHANGED <<root, leaves>>
    /\ Retry(t)
    /\ UNCHANGED <<mob, trained, deep, key, calls, history>>

\* The same compare-and-swap with the marked pointer to the same root.
MarkRoot(t) ==
    /\ pc[t] = "mark"
    /\ root' = IF root = seen[t] THEN [root EXCEPT !.marked = TRUE] ELSE root
    /\ Retry(t)
    /\ UNCHANGED <<mob, leaves, trained, deep, key, calls, history>>

-----------------------------------------------------------------------------
(* Bin::collect, child by child, and the swap of the bin for a model.       *)

GatherBegin(t) ==
    /\ pc[t] = "gather"
    /\ at[t] <= Len(seen[t].kids)
    /\ Freeze(t)
    /\ Goto(t, "gathering")
    /\ UNCHANGED <<mob, root, trained, deep, local, calls, history>>

GatherEnd(t) ==
    /\ pc[t] = "gathering"
    /\ leaves' = [leaves EXCEPT ![Child(t)].list = "closed"]
    /\ at' = [at EXCEPT ![t] = @ + 1]
    /\ Goto(t, "gather")
    /\ UNCHANGED <<mob, root, trained, deep, key, seen, calls, history>>

\* The model is trained with the collected keys; the compare-and-swap fails when
\* another thread has installed its model, and the insert goes to that one.
SwapModel(t) ==
    /\ pc[t] = "gather"
    /\ at[t] > Len(seen[t].kids)
    /\ IF mob = "bin"
         THEN /\ mob' = "model"
              /\ trained' = [i \in DOMAIN seen[t].kids |-> leaves[seen[t].kids[i]].keys]
         ELSE UNCHANGED <<mob, trained>>
    /\ Goto(t, "deep")
    /\ UNCHANGED <<root, leaves, deep, local, calls, history>>

\* insert_retrain of the model: a trained key is there already, any other goes to
\* a bin of the model, which is again what this module describes.
DeepInsert(t) ==
    /\ pc[t] = "deep"
    /\ deep' = IF \E i \in DOMAIN trained : key[t] \in trained[i]
                 THEN deep ELSE deep \cup {key[t]}
    /\ linked' = linked \cup {key[t]}
    /\ told' = told \cup {key[t]}
    /\ Leave(t)
    /\ UNCHANGED <<mob, root, leaves, trained, calls, was>>

-----------------------------------------------------------------------------
(* find_retrain and Bin::search.                                            *)

CallFind(t, k) ==
    /\ pc[t] = "idle"
    /\ calls < MaxCalls
    /\ calls' = calls + 1
    /\ key' = [key EXCEPT ![t] = k]
    /\ was' = [was EXCEPT ![t] = k \in linked]
    /\ Goto(t, "find")
    /\ UNCHANGED <<bin, seen, at, linked, told>>

FindMob(t) ==
    /\ pc[t] = "find"
    /\ Goto(t, CASE mob = "null" -> "absent"
                 [] mob = "bin" -> "findroot"
                 [] mob = "model" -> "finddeep")
    /\ UNCHANGED <<bin, local, calls, history>>

\* Mutant: search gives up at a marked root.
FindRootUnmarked(t) ==
    /\ pc[t] = "findroot"
    /\ seen' = [seen EXCEPT ![t] = root]
    /\ at' = [at EXCEPT ![t] = Route(root, key[t])]
    /\ Goto(t, IF root.marked THEN "absent" ELSE "findlist")
    /\ UNCHANGED <<bin, key, calls, history>>

\* The mark of the root is ignored.
FindRoot(t) ==
    /\ pc[t] = "findroot"
    /\ seen' = [seen EXCEPT ![t] = root]
    /\ at' = [at EXCEPT ![t] = Route(root, key[t])]
    /\ Goto(t, "findlist")
    /\ UNCHANGED <<bin, key, calls, history>>

\* The list's search does not look at freeze bits.
FindList(t) ==
    /\ pc[t] = "findlist"
    /\ Goto(t, IF key[t] \in leaves[Child(t)].keys THEN "present" ELSE "absent")
    /\ UNCHANGED <<bin, local, calls, history>>

\* find_retrain of the model; a bin below it may miss its separators as well.
FindDeep(t) ==
    /\ pc[t] = "finddeep"
    /\ \/ /\ key[t] \in Held
          /\ Goto(t, "present")
       \/ /\ \A i \in DOMAIN trained : key[t] \notin trained[i]
          /\ Goto(t, "absent")
    /\ UNCHANGED <<bin, local, calls, history>>

ReturnFind(t) ==
    /\ pc[t] \in {"present", "absent"}
    /\ was' = [was EXCEPT ![t] = FALSE]
    /\ Leave(t)
    /\ UNCHANGED <<bin, calls, linked, told>>

-----------------------------------------------------------------------------
InsertStep(t) ==
    \/ LoadMob(t) \/ NewBin(t) \/ NewBinFails(t)
    \/ LoadRoot(t) \/ LoadMarked(t) \/ TestCount(t)
    \/ ListLinks(t) \/ ListHasKey(t) \/ ListFrozen(t) \/ CountUp(t)
    \/ CollectBegin(t) \/ CollectEnd(t) \/ Swing(t) \/ MarkRoot(t)
    \/ GatherBegin(t) \/ GatherEnd(t) \/ SwapModel(t) \/ DeepInsert(t)

FindStep(t) ==
    FindMob(t) \/ FindRoot(t) \/ FindList(t) \/ FindDeep(t) \/ ReturnFind(t)

Step(t) == InsertStep(t) \/ FindStep(t)

Next ==
    \E t \in Threads :
        \/ \E k \in Keys : CallInsert(t, k) \/ CallFind(t, k)
        \/ Step(t)

Spec == Init /\ [][Next]_vars

\* The code never waits: a thread that is not stalled takes its next step.
FairSpec == Spec /\ \A t \in Threads \ Stalled : WF_vars(Step(t))

-----------------------------------------------------------------------------
InsertSteps == {"mob", "new", "root", "count", "list", "counted", "collect",
                "collecting", "swing", "mark", "gather", "gathering", "deep"}
FindSteps == {"find", "findroot", "findlist", "finddeep", "present", "absent"}

Roots == [seps : Seq(Keys), kids : Seq(DOMAIN leaves), marked : BOOLEAN]

\* TypeOK: every root, the current one or one a thread has loaded, has one kid
\* more than separators, kids that are leaves, and never more separators than
\* root_max, and the kid a thread works on is one of them.
TypeOK ==
    /\ mob \in {"null", "bin", "model"}
    /\ leaves \in Seq([keys : SUBSET Keys, count : Nat, list : {"open", "freezing", "closed"}])
    /\ root \in Roots
    /\ mob # "null" => Len(root.kids) = Len(root.seps) + 1 /\ Len(root.seps) <= RootMax
    /\ trained \in Seq(SUBSET Keys)
    /\ deep \subseteq Keys
    /\ calls \in 0 .. MaxCalls
    /\ linked \subseteq Keys /\ told \subseteq Keys
    /\ \A t \in Threads :
        /\ pc[t] \in InsertSteps \cup FindSteps \cup {"idle"}
        /\ pc[t] = "idle" \/ key[t] \in Keys
        /\ seen[t] \in Roots
        /\ was[t] \in BOOLEAN
        /\ pc[t] \in {"count", "list", "counted", "collect", "collecting", "swing", "findlist"}
             => at[t] \in DOMAIN seen[t].kids
        /\ pc[t] \in {"gather", "gathering"} => at[t] \in 1 .. Len(seen[t].kids) + 1

\* LinkedKept: a key that a list's insert has linked (it returned 1) stays
\* reachable from mobs_lf through every split, retraining and swap, whatever the
\* other threads do between the collect and the compare-and-swap that publishes
\* its result.
LinkedKept == linked \subseteq Held

\* LeavesInRange: the separators of the root never descend and every key of a kid lies
\* between the separators around it, the lower one included: split_root stores
\* the separator as the first key of the right half.
LeavesInRange ==
    LET r == root IN
    /\ \A i \in 1 .. Len(r.seps) - 1 : r.seps[i] <= r.seps[i + 1]
    /\ \A i \in DOMAIN r.kids : \A k \in leaves[r.kids[i]].keys :
        /\ i > 1 => r.seps[i - 1] <= k
        /\ i <= Len(r.seps) => k <= r.seps[i]

\* CountCovers: the count is tested before the list's insert and raised after it, and
\* that of the first leaf starts anywhere below child_max, but a leaf never has more keys than it counts except for
\* those whose inserts are about to raise the count: a full leaf takes no key
\* from an insert that begins later, and the halves of a split start counted.
CountCovers ==
    \A i \in DOMAIN leaves :
        Cardinality(leaves[i].keys)
            <= leaves[i].count + Cardinality({t \in Threads : pc[t] = "counted" /\ Child(t) = i})

\* MissedAreSeparators: a find misses a key that was linked before the find began
\* only if the key is a separator of the root it searched, or lies below the
\* trained model.
MissedAreSeparators ==
    \A t \in Threads :
        pc[t] = "absent" /\ was[t] =>
            key[t] \in deep \/ \E i \in DOMAIN seen[t].seps : seen[t].seps[i] = key[t]

\* InsertReturns: every insert of a thread that keeps running returns, although
\* another thread may stop between freezing a leaf and replacing it.
InsertReturns ==
    \A t \in Threads \ Stalled : pc[t] \in InsertSteps ~> pc[t] = "idle"

\* InsertKept: a key for which insert returned true can be found afterwards.  The
\* comment at the return of insert_model_or_bin says "Return true when insertion
\* was successful".
InsertKept == told \subseteq Held

=============================================================================
