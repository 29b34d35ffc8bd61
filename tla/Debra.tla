------------------------------- MODULE Debra -------------------------------
(***************************************************************************)
(* Epoch-based reclamation of the list nodes of Kanva_RS: reclaimer_debra  *)
(* and the guards of record_manager, as the lists of Uruv/LF_LL.h and the  *)
(* model that owns them use them.  A guard announces the epoch (startOp)   *)
(* and, when it goes out of scope, announces that the thread is quiescent  *)
(* (endOp).  A thread that has seen every announcement in the present      *)
(* epoch, or quiescent, advances the epoch.  A retired node goes into the  *)
(* current of three bags of its thread; a thread that finds a new epoch    *)
(* rotates its bags, and frees what the oldest of them holds, one node for *)
(* each startOp.                                                           *)
(*                                                                         *)
(* The model loads the pointer of a list before any guard is open, and the *)
(* functions of the list open the guards.  They nest (insert calls find,   *)
(* read and vCAS): an inner guard announces a new epoch, and its end makes *)
(* the thread quiescent while the outer one is open.  A list is replaced   *)
(* by a compare-and-swap outside any guard; reclaimMem then retires its    *)
(* nodes under a guard of its own.  The nodes stay chained, so a thread    *)
(* that has loaded the list may read them whenever it likes.               *)
(*                                                                         *)
(* Steps are sequentially consistent: record_manager puts a full fence     *)
(* after startOp, before anything is read under the guard; the relaxed     *)
(* store of endOp is taken in program order.                               *)
(***************************************************************************)
EXTENDS Integers, FiniteSets

CONSTANTS
    N,          \* NUM_PROCESSES: the threads are 0 .. N - 1
    Object,     \* the nodes with a key, of all lists
    List,       \* the lists, each the set of its nodes
    MaxDepth,   \* bound: guards open at the same time in a thread
    MaxEpoch    \* bound: no guard is opened in this epoch

ASSUME DebraAssumption ==
    /\ N \in Nat \ {0} /\ IsFiniteSet(Object)
    /\ List \subseteq SUBSET Object /\ \A l, m \in List : l # m => l \cap m = {}
    /\ MaxDepth \in Nat \ {0} /\ MaxEpoch \in Nat

Thread == 0 .. N - 1

\* Mutant: a bag for the present epoch and one for the epoch before.
TwoBags == 2

\* NUMBER_OF_EPOCH_BAGS
NBags == 3

VARIABLES
    epoch,      \* the global epoch, in units of EPOCH_INCREMENT
    ann,        \* announcedEpoch without its quiescent bit
    quiet,      \* the quiescent bit
    mine,       \* localvar_announcedEpoch, -1 before the first startOp
    bags, index,    \* epochbags, and the index of the current one
    freeable,   \* deamortizedFreeables
    checked,    \* how far a thread has come in checking the others
    pc, depth,  \* the step of a thread and the guards it has open
    mob,        \* the list a thread has loaded, {} for one whose nodes do not matter
    role,       \* the function of the innermost open guard: find, reclaimMem or another
    found,      \* the nodes find may read
    linked,     \* the lists that are in their slot of mobs_lf
    unlinked,   \* the nodes that a thread has to retire, of the list it has replaced
    freed,      \* the nodes given back to the allocator
    \* history
    spared,     \* what was not retired at the announcement of a thread
    opened      \* the epoch at that announcement

scan == <<epoch, checked>>
announced == <<ann, quiet>>
limbo == <<bags, index, freeable>>
guards == <<depth, role>>
lists == <<linked, unlinked>>
history == <<spared, opened>>
vars == <<scan, announced, mine, limbo, pc, guards, mob, found, lists, freed, history>>

\* The nodes in a bag, on a free list or freed.
Retired ==
    freed \cup UNION {freeable[u] \cup UNION {bags[u][i] : i \in 0 .. NBags - 1} : u \in Thread}

\* The constructor and initThread.
Init ==
    /\ epoch = 0
    /\ ann = [t \in Thread |-> 0]
    /\ quiet = [t \in Thread |-> TRUE]
    /\ mine = [t \in Thread |-> -1]
    /\ bags = [t \in Thread |-> [i \in 0 .. NBags - 1 |-> {}]]
    /\ index = [t \in Thread |-> 0]
    /\ freeable = [t \in Thread |-> {}]
    /\ checked = [t \in Thread |-> 0]
    /\ pc = [t \in Thread |-> "idle"]
    /\ depth = [t \in Thread |-> 0]
    /\ mob = [t \in Thread |-> {}]
    /\ role = [t \in Thread |-> "none"]
    /\ found = [t \in Thread |-> {}]
    /\ linked = List
    /\ unlinked = [t \in Thread |-> {}]
    /\ freed = {}
    /\ spared = [t \in Thread |-> {}]
    /\ opened = [t \in Thread |-> 0]

Goto(t, step) == pc' = [pc EXCEPT ![t] = step]

-----------------------------------------------------------------------------
(* startOp *)

\* rotateEpochBags: the full blocks of the oldest bag, here any part of it, go to
\* the free list, and the bag becomes the current one.
Rotate(t) ==
    LET next == (index[t] + 1) % NBags IN
    \E S \in SUBSET bags[t][next] :
        /\ bags' = [bags EXCEPT ![t][next] = @ \ S]
        /\ freeable' = [freeable EXCEPT ![t] = @ \cup S]
        /\ index' = [index EXCEPT ![t] = next]

\* The functions whose guard a thread may open next: find in that of insert,
\* reclaimMem after the thread has replaced a list, the others ("walk") otherwise.
Guards(t) ==
    CASE role[t] = "none" /\ unlinked[t] # {} -> {"reclaim"}
      [] role[t] = "none" /\ unlinked[t] = {} -> {"walk"}
      [] role[t] = "walk" -> {"walk", "find"}
      [] OTHER -> {}

StartOpWith(t, restart) ==
    /\ pc[t] \in {"idle", "op", "bare"}
    /\ depth[t] < MaxDepth
    /\ epoch < MaxEpoch
    /\ depth' = [depth EXCEPT ![t] = @ + 1]
    /\ \E r \in Guards(t) : role' = [role EXCEPT ![t] = r]
    /\ IF epoch = mine[t]
         THEN UNCHANGED <<limbo, checked>>
         ELSE Rotate(t) /\ checked' = [checked EXCEPT ![t] = restart]
    /\ mine' = [mine EXCEPT ![t] = epoch]
    /\ Goto(t, "free")
    /\ UNCHANGED <<epoch, announced, mob, found, lists, freed, history>>

\* Mutant: the scan goes on where it was in the old epoch.
StartOpGoesOn(t) == StartOpWith(t, checked[t] % N)

\* Read the epoch; if it is not the one of the last startOp, rotate the bags and
\* begin to scan anew.
StartOp(t) == StartOpWith(t, 0)

\* Free one node of the free list, if there is one.
Free(t) ==
    /\ pc[t] = "free"
    /\ IF freeable[t] = {}
         THEN UNCHANGED <<freeable, freed>>
         ELSE \E o \in freeable[t] :
                /\ freeable' = [freeable EXCEPT ![t] = @ \ {o}]
                /\ freed' = freed \cup {o}
    /\ Goto(t, "announce")
    /\ UNCHANGED <<scan, announced, mine, bags, index, guards, mob, found, lists, history>>

\* Whether this call looks at another thread: every MIN_OPS_BEFORE_READ-th does.
Announce(t) ==
    /\ pc[t] = "announce"
    /\ ann' = [ann EXCEPT ![t] = mine[t]]
    /\ quiet' = [quiet EXCEPT ![t] = FALSE]
    /\ spared' = [spared EXCEPT ![t] = Object \ Retired]
    /\ opened' = [opened EXCEPT ![t] = epoch]
    /\ \E step \in {"check", "op"} : Goto(t, step)
    /\ UNCHANGED <<scan, mine, limbo, guards, mob, found, lists, freed>>

CheckIf(t, passed) ==
    /\ pc[t] = "check"
    /\ checked' = [checked EXCEPT ![t] = IF passed THEN @ + 1 ELSE @]
    /\ Goto(t, IF checked'[t] >= N THEN "advance" ELSE "op")
    /\ UNCHANGED <<epoch, announced, mine, limbo, guards, mob, found, lists, freed, history>>

\* Look at the announcement of one thread.
Check(t) == CheckIf(t, ann[checked[t]] = mine[t] \/ quiet[checked[t]])

AdvanceTo(t, e) ==
    /\ pc[t] = "advance"
    /\ epoch' = e
    /\ Goto(t, "op")
    /\ UNCHANGED <<checked, announced, mine, limbo, guards, mob, found, lists, freed, history>>

\* Mutant: the compare-and-swap may fail without a reason, like a weak one.
AdvanceWeak(t) == \E e \in {epoch, epoch + 1} : AdvanceTo(t, IF epoch = mine[t] THEN e ELSE epoch)

\* The compare-and-swap of the epoch.
Advance(t) == AdvanceTo(t, IF epoch = mine[t] THEN epoch + 1 ELSE epoch)

-----------------------------------------------------------------------------
(* Lists and their nodes *)

\* Load the pointer of a list from its slot, outside any guard.
Load(t) ==
    /\ pc[t] = "idle" /\ unlinked[t] = {}
    /\ \E l \in linked \cup {{}} : mob' = [mob EXCEPT ![t] = l]
    /\ UNCHANGED <<scan, announced, mine, limbo, pc, guards, found, lists, freed, history>>

\* The nodes a thread may read next.  All but find follow the pointers of the list,
\* frozen or not, from its head, or hold a node from before: whether the list is
\* still in its slot, whether its nodes are retired or freed, and whether a guard is
\* open (range_query has none) makes no difference.  reclaimMem reads what only its
\* own thread retires and frees.
MayRead(t) == IF role[t] = "find" THEN found[t] ELSE mob[t]

FindIn(t, S) ==
    /\ pc[t] = "op" /\ role[t] = "find"
    /\ mob[t] \in S
    /\ found' = [found EXCEPT ![t] = mob[t]]
    /\ UNCHANGED <<scan, announced, mine, limbo, pc, guards, mob, lists, freed, history>>

\* Mutant: follow the pointers without a look at their freeze bits, as search does.
FindUntested(t) == FindIn(t, List)

\* find goes on only if it reads a pointer unfrozen, and all pointers of a list are
\* frozen before the list is replaced.  It loads the pointer of the head once more
\* after the test, so that from then on it may read what has been replaced meanwhile.
Find(t) == FindIn(t, linked)

\* The compare-and-swap that puts a new model into the slot of a list.
Swap(t) ==
    /\ pc[t] = "idle"
    /\ mob[t] \in linked
    /\ linked' = linked \ {mob[t]}
    /\ unlinked' = [unlinked EXCEPT ![t] = mob[t]]
    /\ mob' = [mob EXCEPT ![t] = {}]
    /\ UNCHANGED <<scan, announced, mine, limbo, pc, guards, found, freed, history>>

\* One turn of the loop of reclaimMem; the pointers of the node stay as they are.
retire(t, o) ==
    /\ pc[t] = "op" /\ role[t] = "reclaim"
    /\ o \in unlinked[t]
    /\ bags' = [bags EXCEPT ![t][index[t]] = @ \cup {o}]
    /\ unlinked' = [unlinked EXCEPT ![t] = @ \ {o}]
    /\ UNCHANGED <<scan, announced, mine, index, freeable, pc, guards, mob, found, linked, freed, history>>

\* The end of a guard, whether or not another one is open; that of reclaimMem when
\* all nodes are retired.
EndOp(t) ==
    /\ pc[t] \in {"op", "bare"}
    /\ unlinked[t] = {}
    /\ ann' = [ann EXCEPT ![t] = mine[t]]
    /\ quiet' = [quiet EXCEPT ![t] = TRUE]
    /\ depth' = [depth EXCEPT ![t] = @ - 1]
    /\ role' = [role EXCEPT ![t] = IF depth[t] = 1 THEN "none" ELSE "walk"]
    /\ found' = [found EXCEPT ![t] = {}]
    /\ spared' = [spared EXCEPT ![t] = {}]
    /\ opened' = [opened EXCEPT ![t] = 0]
    /\ Goto(t, IF depth[t] = 1 THEN "idle" ELSE "bare")
    /\ UNCHANGED <<scan, mine, limbo, mob, lists, freed>>

-----------------------------------------------------------------------------
Next ==
    \E t \in Thread :
        \/ StartOp(t) \/ Free(t) \/ Announce(t) \/ Check(t) \/ Advance(t) \/ EndOp(t)
        \/ Load(t) \/ Find(t) \/ Swap(t)
        \/ \E o \in Object : retire(t, o)

Spec == Init /\ [][Next]_vars

-----------------------------------------------------------------------------
(* Properties *)

\* TypeOK: every variable has its type; the current bag is one of the three.
TypeOK ==
    /\ epoch \in 0 .. MaxEpoch
    /\ ann \in [Thread -> 0 .. MaxEpoch] /\ quiet \in [Thread -> BOOLEAN]
    /\ mine \in [Thread -> -1 .. MaxEpoch]
    /\ bags \in [Thread -> [0 .. NBags - 1 -> SUBSET Object]]
    /\ index \in [Thread -> 0 .. NBags - 1]
    /\ freeable \in [Thread -> SUBSET Object]
    /\ checked \in [Thread -> 0 .. N]
    /\ pc \in [Thread -> {"idle", "free", "announce", "check", "advance", "op", "bare"}]
    /\ depth \in [Thread -> 0 .. MaxDepth]
    /\ mob \in [Thread -> SUBSET Object]
    /\ role \in [Thread -> {"none", "walk", "find", "reclaim"}]
    /\ found \in [Thread -> SUBSET Object]
    /\ linked \in SUBSET List /\ freed \in SUBSET Object
    /\ unlinked \in [Thread -> SUBSET Object] /\ spared \in [Thread -> SUBSET Object]
    /\ opened \in [Thread -> 0 .. MaxEpoch]

\* SparedNotFreed: a node that is not retired when a thread announces an epoch is not
\* freed before the thread is quiescent or announces again, whichever thread retires
\* it, under whatever announcement of its own, and however late either announcement
\* came after the epoch was read.
SparedNotFreed == \A t \in Thread : spared[t] \cap freed = {}

\* FreedReadsExplained: a thread that may read a freed node is not in find, and its
\* announcement does not cover the node: the node was retired before it announced, or
\* the thread is quiescent, before a guard or after the end of an inner one.  What find
\* reads is safe by its freeze test under its own guard; for insert after find, search,
\* collect and range_query the two cases remain.
FreedReadsExplained ==
    \A t \in Thread : \A o \in MayRead(t) \cap freed : role[t] # "find" /\ o \notin spared[t]

\* GraceBounded: while a thread works under its announcement the epoch advances at
\* most once, though threads that are about to advance it may have looked at
\* this one before it announced, and the announced epoch may be an old one.
GraceBounded == \A t \in Thread : ~quiet[t] => epoch <= opened[t] + 1

\* ScanInBounds: startOp reads the announcements of existing threads only: checked
\* reaches NUM_PROCESSES just before the epoch changes, which resets it.
ScanInBounds == \A t \in Thread : pc[t] = "check" => checked[t] < N

=============================================================================
