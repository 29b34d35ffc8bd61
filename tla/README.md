# Kanva: models, checks and proofs

Kanva is a lock-free learned index. `src/` holds two variants of it and the
structures it is compared with:

* **Kanva** (`Kanva_impl/`): a sorted map with point operations;
* **Kanva_RS** (`Kanva_RS/`): the same index with range queries over a snapshot,
  built from version lists and a logical clock;
* Finedex, an (a,b)-tree, an elimination (a,b)-tree and a CIST, with the support
  libraries they come with, as baselines of the benchmarks.

This project models the two variants of Kanva. The baselines are third-party
code and are not modelled.

## 1. Inventory

| Component | State | Operations | What is hard |
|---|---|---|---|
| Version tracker (`Uruv/VersionTracker/`) | linked list of `TrackerNode`s, `head`, `tail` | `add_timestamp`, `get_latest_timestamp`, `get_oldest_timestamp`, `finish = true` | two CASes per append, helpers with stale locals, suspended threads |
| Version lists (`Kanva_RS/util.h`, `Uruv/LF_LL.h`) | per key a list of `Vnode`s, newest first, with lazily set timestamps | `init_ts`, `read`, `vCAS`, `insert`, `getVersionedValue` | a version is visible before it is stamped; helpers stamp it; writers race with queries |
| Uruv list (`Uruv/LF_LL.h`) | sorted list of keys, freeze bits, `size`, `isReclaimed` | `insert`, `remove`, `search`, `collect`, `range_query`, `reclaimMem` | a list that is frozen node by node while others update it; reclamation |
| Kanva_RS model (`kanva_RS_model_impl.h`) | `model_array`, `mobs_lf` | `find_retrain`, `insert_retrain`, `remove`, `scan` | a bin is replaced by a model while others use the bin |
| Kanva_RS index (`kanva_RS_impl.h`) | `model_keys`, `aimodels`, `version_tracker` | `train`, `find`, `insert`, `remove`, `rangequery` | routing, partition of the training data |
| Freeze list (`Kanva_impl/Bin_LL/LF_LL.h`) | sorted list with a mark and a freeze bit in `next` | `find`, `insert`, `remove`, `search`, `collect` | marks and freezes of other threads between two reads |
| Bin (`Kanva_impl/Bin_LL/Bin.h`) | a root that is a leaf or has leaf children | `insert`, `remove`, `search`, `collect`, split | splitting a leaf while others update it |
| Kanva model (`kanva_model_impl.h`) | sorted keys, values, `mobs_lf` | `find_retrain`, `insert_retrain`, `remove` | a bin is replaced by a model |
| Kanva index (`kanva_impl.h`) | `model_keys`, `aimodels` | `train`, `find`, `insert`, `remove` | partition of the training data |
| Memory reclamation (`Uruv/common/recordmgr/`, vendored) | epoch, announcements, three bags per thread | guards (`startOp`, `endOp`), `retire` | announcements that come late, guards that nest |
| Searches (`common/util.h`, `locate_in_levelbin`) | none | `binary_search_branchless`, windowed search, gallop | boundaries |

How the parts interact:

* An operation of either index finds its model (`find_model`, a branchless binary
  search in the largest keys of the models), predicts the position of the key in
  the model's sorted array and corrects the prediction (`locate_in_levelbin`). If
  the key is there, the operation works on the array; otherwise on the pointer
  `mobs_lf[bin_pos]` between two keys: null, a bin, or a nested model.
* In Kanva a bin is a `Bin`: a tree of two levels whose leaves are freeze lists.
  A full leaf is frozen and collected by whoever needs it split, and the root
  pointer is swung to a copy with two new leaves. A full root is marked; an
  insert that meets the mark collects all leaves, trains a model from the keys
  and swings `mobs_lf[bin_pos]` to it.
* In Kanva_RS a bin is a single Uruv list, replaced by a model when it holds
  `threshhold` keys. Every key has a version list; all updates push versions.
* A range query obtains a timestamp from the version tracker, reads from each
  version list the newest version below it, and sets `finish` on its node.
  Every thread that meets an unstamped version stamps it from the tracker.
* Training (`train`, `backward_train`) happens before threads start.

Every shared word is a `std::atomic` accessed with sequential consistency, so an
interleaving of atomic loads, stores and compare-and-swaps describes the program.
The exceptions are `TrackerNode::finish`, `isReclaimed` and the values of a Kanva
model, which are plain, and the announcements of the record manager, which are
relaxed, with a full fence after that of `startOp` (`record_manager.h:133`).

What makes each part correct:

* tracker: timestamps of concurrent queries differ, are published before they
  are used, never go back, and the oldest one reported is below all in use;
* version lists: a query reads one moment of the history, with every update that
  returned before it; updates do not wait for each other;
* freeze list: sorted, no live node lost, answers true at some moment of the
  call, nothing linked after a collect has ended, and calls return;
* bin and model: no key lost in a split or a retraining, keys between their
  separators, counts that cover the keys of a leaf, lookups that find what was inserted;
* Uruv list and Kanva_RS model: no node and no completed update lost when a list is
  replaced by a model, range queries that see what was complete, calls that return;
* reclamation: nothing freed under an announcement that was not retired before it, and
  nothing freed that `find` reads;
* training: every key in one model, no read past the keys, an end;
* searches: inside the array, find what is there.

## 2. Modules

| Module | Models | Uses |
|---|---|---|
| `VersionClock` | abstract: an atomic counter; a query takes its value in one step | |
| `TrackerList` | the version tracker; shown to implement `VersionClock` | `VersionClock` (refinement) |
| `VersionedArray` | version lists of a model's keys, updates and range queries | `VersionClock` as its clock |
| `UruvBin` | one position of `mobs_lf` of a Kanva_RS model: null, Uruv list, model; range queries over it | `VersionClock`'s clock in one step, `VersionedArray`'s `init_ts` in one step |
| `Debra` | the epochs, guards and bags that reclaim the list nodes of Kanva_RS | |
| `FreezableSet` | abstract: a set of keys with updates in one step, which collects freeze and close | |
| `FreezeList` | the list of a leaf of a `Bin`; shown to implement `FreezableSet` | `FreezableSet` (refinement) |
| `KanvaBin` | one position of `mobs_lf` of a Kanva model: null, bin, model | `FreezableSet`'s steps for a leaf's list |
| `Training` | the division of the keys into models by the bulk load of both variants | |
| `LearnedSearch` | the three searches in sorted arrays | |
| `*Proofs` | theorems about the module they extend | |
| `MC*` | instances for TLC | |

**VersionClock.** `clock` is the tracker's current time; `Tick` gives a query the
next value; `floor` is the value `get_oldest_timestamp` may report.

**TrackerList.** Node *n* is the *n*-th node ever linked; `next`, `ts`, `finish`,
`head` and `tail` are the fields of the code. `add_timestamp` is `LoadTail`,
`LinkNew`/`LinkFail` (the CAS on `next`), `SwingTail` (the CAS on `tail`) and the
helping path `HelpLoad`, `HelpCheck`, `HelpSwing`; `remove_head` is `LoadHead` and
`CheckHead`. A node that loses its CAS is not linked and gets no number.
Refinement mapping: the clock is the timestamp of the tail, so the abstract tick
is the CAS on `tail`, whichever thread executes it.

**VersionedArray.** `val[k][i]`, `ts[k][i]` are value and timestamp of the *i*-th
version of key *k* and `vhead[k]` is the newest one, so `nextv` of *i* is *i - 1*.
`init_ts` is a routine with a return point: `Stamp` (the test and the load of the
clock) and `StampCAS`. `insert` is `ReadValue`/`ReadSame`, `LoadHead`, `Push`/`PushFail`;
`getVersionedValue` is `VersionedLoad`, `init_ts`, `Walk`. `CallInsert` stands for
`insert_retrain` and `remove` (value -1) with their test of the current value.
A query reads keys in any order, which covers the order of `scan`.

**UruvBin.** A node is named by its key and never unlinked; `next`, `frozen`, `vhead`,
`size`, `isReclaimed` are the fields of the code, `vnodes` all versions ever
published, `mhead` the version lists of the model that replaces the list. An insert
or remove (an insert of -1) is `LoadMob`, `NewBin`, `TestSize`, the walk of `find`
(`FindHead`, `FindNext`, `FindEnd`, `FindFrozen`), then `Link` with `Stamp` and
`Count` for a new node, or `read` and `vCAS` (`Load`, `Stamp`, `ReadValue`, `Push`,
`ReturnPush`) for one that is there; a full list leads to `collect`
(`CollectBegin`, `Freeze`, `Take` for each node), `Swap`, `Flag`, `Reclaim` and the
insert into the new model. The freezing of `vhead` in the code is guarded by the
freeze bit of `next`, which has just been set: it never happens, and `Freeze` does
not do it. Operations on the model are one step, because `VersionedArray` has their
interleavings. A range query is `CallQuery` (the clock), `QueryMob` and the walk of
`range_query`, in the list it has loaded or in the model. The history variables
`done`, `late` and `retired` only serve the properties.

**Debra.** Epochs, announcements, bags and `checked` are the fields of
`reclaimer_debra`. `startOp` is `StartOp` (the read of the epoch, the rotation),
`Free`, `Announce`, `Check`, `Advance`; `endOp` is `EndOp`. A rotation moves any part of
the oldest bag to the free list: the code moves its full blocks. Around them is what the
lists do. `Load` is the load of `mobs_lf[bin_pos]`, which every operation makes before a
guard is open; `mob` is the list it found, with all nodes the list ever has. The
functions of the list open the guards, which nest (`Guards`). `Swap` is the
compare-and-swap that puts a model in the list's place, outside any guard; the next guard
of that thread is `reclaimMem`'s, whose loop is `retire`. Only `find` tests the freeze
bits: `Find` is a test it passes, which it can only while the list is in its place,
since all pointers are frozen before the swap (`UruvBin`: `ReclaimSound`); from then on
it may read any node of the list. `MayRead` says what a thread may read: all but `find`
walk the whole list they have loaded, replaced or not, under a guard or not. `spared` is
what was not retired at the thread's last announcement.

**Training.** One action per branch of the loops of `train` and `backward_train`. The
regression is replaced by the class of its error (less, equal, more than `maxErr`),
chosen freely, except that a segment tried twice errs the same and that segments of up
to `Fit` keys fit: least squares over k positions errs by at most sqrt(k(k^2-1)/12).
`size` of `backward_train` is unsigned: `AtMost` says what its comparisons do with a
negative argument.

**FreezeList.** A pointer is a record of target, mark and freeze bit. One action
per load or CAS of `next`; each comment says where two loads are one step and why.
Refinement mapping to `FreezableSet`: the set is the keys of the unmarked nodes, so an
insert takes effect with its CAS of the predecessor and a removal with the mark; the
set is `freezing` from the first frozen pointer on and `closed` once a collect has
returned. A remove answers after it (or another remove of the same key) has taken the
key out, and *absent* is answered if it was so at some moment of the call.

**KanvaBin.** `mob`, `root` and `leaves` are the pointer, the bin's root and the
leaves. A leaf's list is a set of keys with a state `open`, `freezing`, `closed`:
these are the states of `FreezableSet`, which `FreezeList` implements; `ListLinks`,
`ListHasKey`, `ListFrozen`, `CollectBegin` and `CollectEnd` do to a leaf what `Link`,
`Exists`, `Refuse`, `Begin` and `Collect` do to that set. An insert is `LoadMob`, `NewBin`,
`LoadRoot`, `TestCount`, one of `ListLinks`, `ListHasKey`, `ListFrozen`, then
`CountUp`, or a split (`CollectBegin`, `CollectEnd`, `Swing`), or a mark
(`MarkRoot`), or a retraining (`GatherBegin`, `GatherEnd`, `SwapModel`,
`DeepInsert`). The nested model is a set of keys `deep`, because its bins are
again what the module describes. The count of a bin's first leaf is not
initialised by the code; the model starts it at any value from 0 to
`child_max - 1`.

**LearnedSearch.** One action per iteration of each loop. The regression itself is
replaced by what `max_error` guarantees of it: a key of the array is predicted at
most `maxErr` away.

## 3. Runs

| Run | Bounds | What it shows |
|---|---|---|
| `tracker` | 3 threads, 4 queries, one thread may stop | publication of timestamps, safe oldest timestamp, refinement of the clock, progress |
| `versions` | 3 threads, 2 keys, 2 updates, 1 query, two threads may stop | order along lists, stable snapshots, completed updates seen, consistent cut, updates return |
| `list_safety` | 3 threads, 4 calls, 2 keys, 3 nodes, at most one at the start | structure of the list, witnessed results, exact collects |
| `list_steps` | 2 threads, 4 calls, 2 keys, 3 nodes, up to two at the start, one thread may stop | refinement of `FreezableSet`, calls return |
| `bin` | 2 threads, 5 calls, 3 keys, limits of 2, one thread may stop | nothing linked is lost, ranges, counts, finds, inserts return |
| `bin_kept` | 2 threads, 4 calls | *violated*: an insert that returned true left nothing behind |
| `uruv` | 2 threads, 3 updates, 1 query, 3 keys, `threshhold` 2, one thread may stop | nodes and early updates survive the replacement of the list, queries see what was complete, reclaimMem's assertions, calls return |
| `uruv_kept` | 2 threads, 3 updates | *violated*: an update that returned is not in the model |
| `debra` | 2 threads, a list of 1 node, 2 nested guards, 4 epochs | nothing freed under an announcement made before its retirement, who may read freed nodes, one epoch of grace, scan within bounds |
| `training` | 0 to 350 keys (Kanva), 0 to 2195 (Kanva_RS) | partition, reads in bounds, where the assertion can fail, termination |
| `training_abort` | 195 keys | *violated*: the assertion `step>0` |
| `search` | arrays of up to 7 of 8 keys, all keys and predictions | reads in bounds, keys found, lower bound |

Why the bounds are enough to be interesting. Three threads on the tracker and on
the version lists give a winner, a loser that helps and a third that is suspended
with stale locals; an update of each of two keys, or two of one, on top of the trained
versions, are what a torn or an unstable snapshot needs. In the freeze list three threads are a remover, an inserter behind the
removed node and a collector (a second node at the start would only save one of the
four calls). In the bin, limits of 2 (`child_max` and `root_max`
are 32 in the code) make five calls enough for a first split, a split of a child
in the middle of the root, a full root, the retraining and a find in the model.
In the Uruv bin a list of one or two keys, a third update that races with the
collect, and a query are enough for an update that is lost, a link that meets a freeze
and a query that stays in the replaced list. Four epochs let a bag come round three times
after a retirement, with an epoch to spare for an announcement that comes late; the list
is loaded, replaced, retired and freed while the other thread reads it in each of the ways
that `FreedReadsExplained` leaves open (TLC reaches all three of section 4). The sizes of `training` are few keys, a full
hundred, a rest of a hundred that fits, one that does not, several hundreds, and none.
Arrays of up to seven keys have all shapes of window and gallop, and every
remainder of the first step of the branchless search.

`CHECK_DEADLOCK FALSE` appears where the bound on calls, queries or epochs, or the end
of the bulk load, ends a behaviour. Symmetry is used only in runs without liveness.

Every property has a mutant, a definition in the module that changes one action as
a plausible mistake in the code would, and that TLC refutes the property for.

**Fairness.** Every thread outside `Stalled` is weakly fair in its own steps: the
scheduler runs it, and no statement of the code waits. Threads in `Stalled` may
stop for ever at any statement, which is what lock-freedom has to survive. Calls
are never fair: nothing makes a program call. Progress is claimed for finitely
many competing calls, which the bounds on calls, nodes or versions provide; the
code is lock-free, not wait-free, and an endless stream of competitors could
starve one call. `Training` is sequential: its fairness says that the program goes
on.

## 4. Findings

* **An insert can be lost in the first leaf of a bin** (`bin_kept`). The result -1
  of a frozen list is stored in a `bool` and taken for success.
* **An update can be lost when a Kanva_RS bin becomes a model** (`uruv_kept`).
  `collect` means to freeze the version lists, but tests the freeze bit it has just set
  on `next`. An update that is past `find` pushes its version after `collect` has read
  the list, and returns success. `LostAreLate` says that no other update is lost.
* **The bulk load can fail its assertion** (`training_abort`). `backward_train` calls
  itself with what is left of `end`, which can be negative and becomes a large
  unsigned size. `AbortsExplained` says for which segments this happens. It was
  reproduced with the code itself: 195 keys i + 1 + 1.2^i and `maxErr` 32.

Behaviour seen in the models, or met while they were written, that no run is about:

* `VersionedArray::insert` returns false on every path, also after it has changed
  the list; `insert_retrain` and `remove` pass that on.
* The tracker's first node is never finished, so `get_oldest_timestamp` is 0 for
  ever, although a comment says that the head is removed; `OldestIsSafe` holds.
* A range query does not see trained keys that nobody has touched, because it stamps
  their only version itself, with its own time.
* The separator of a split is stored in the right child and looked for in the left
  one: a find misses it until the bin becomes a model (`MissedAreSeparators` says that
  nothing else is missed), a second insert stores it again, and the model is then
  trained with equal keys. The separators of a root can become equal.
* In Kanva_RS, a remove that meets a full list returns false without retraining; a
  remove of an absent key returns true when there is a list; an insert or remove that
  meets a list being frozen returns false.
* `reclaimMem` retires versions below the head of the old list; when an update was
  lost, the model's newest version is one of them. They stay linked, and nothing opens
  a guard of the versions' record manager, so they are never freed. `OldestIsSafe` is
  therefore about the value only, not about versions being unread.
* `scan` advances before it reads a bin, so the bin in front of the position it
  starts at is not read.
* List nodes can be read after they are freed (`Debra`). A list is loaded before any
  guard is open, and `reclaimMem` leaves its nodes chained ("Don't nullify
  prev_node->next - causes race conditions", `Uruv/LF_LL.h:385`), so whoever has loaded it
  can still walk them. `FreedReadsExplained` says that this never happens in `find`, and
  otherwise in three ways, all of which occur in the model: `range_query` walks without a
  guard of its own; guards nest, so after `find` has returned to `insert` the thread is
  announced quiescent and holds `prev_node` and `right_node`; and `search` and `collect`
  may announce only after the list they walk was replaced and its nodes retired (`collect`
  tests `isReclaimed` before its guard, and tests it again after a node was read).

## 5. Proofs

The theorems hold for every value of the constants that satisfies the named
assumptions of the modules. These say that bounds and limits are natural numbers, that
the sets of threads and of keys are finite where the module counts them
(`FreezeList`, `KanvaBin`, `UruvBin`, `Debra`), that `child_max` is at least 2, and for `Training`
that the regression fits some ten keys (`Fit >= 10`) and that Kanva is loaded with fewer
than 10^9 keys, which keeps `learning_step`, a power of ten, within its `int`.

Every proof has the same shape: an inductive invariant `IInv`, one lemma per action
that the action preserves it, and the theorems as consequences. TLC has checked each
`IInv` on the instances of the runs before it was proved.

**TrackerListProofs.** The inductive invariant says that the list is the chain
0, 1, 2, ... in the order of linking with `ts[n] = n` (`Chain`); that the tail is
the last node or its predecessor, and in the latter case the thread that linked
the last node has not yet executed its second CAS (`TailPosition`); that node 0
is the head and not finished (`HeadStays`); what each thread's locals say of the
list (`Locals`); and that no two threads own the same node (`Owners`). The
properties alone are not inductive: that a CAS on `next` succeeds only at the last
node needs the chain, and that ignoring the result of the CAS on `tail` is
harmless needs `TailPosition`. Proved: `TypeOK`, `TimestampPublished`,
`OldestIsSafe`, that concurrent timestamps differ (`TimestampsUnique`), that the tail
lags by one at most (`TailLagsByOne`), that the clock advances by ones
(`ClockMonotone`), and that the safety part of the specification implements `VersionClock`.

**VersionedArrayProofs.** The central notion is that a version is *late* for a query
with timestamp T: it is not stamped below T, and nobody who is about to stamp it
holds a clock value below T. A version pushed after the query's tick is late,
because whoever stamps it reads the clock later. Late stays late. The query stamps
the head it loads before it walks, so everything above the version it returns is
late, which gives `SnapshotStable`; updates that had returned at the tick are
stamped below T (*early*), which gives `CompletedSeen`; and what was complete when
a version was pushed has a timestamp not above that version's, which gives
`ConsistentCut`. `Lists` (order along each list) supports all three. Also proved:
`TypeOK`, `VersionsOrdered`, `StampedOnce`.

**LearnedSearchProofs.** Loop invariants: if the array has the key, it lies between
`lo` and `hi`; for the branchless search, the positions it may still visit are
inside the array. `LowerBound` rests on the width of what is left to search: every key
up to `pos` is below the key, none from `pos` + twice the step on is (or that is the last
position, which the search looks at in the end), and the step is a power of two, so
halving it loses no position to rounding; when it is 0 the window is one key wide. `PowerOfTwo` is defined by divisors, which makes "half of a power of two is
one" a fact about remainders and needs no induction; `MCLearnedSearch` has TLC compare it
with the powers 2^k. Proved: `ReadsInBounds`, `KeyFound`, `LowerBound`.

**TrainingProofs.** The invariant says of the loop of `backward_train` that what it
tries is congruent to the length of the segment modulo a step that is a power of ten
below that length, and that it reaches zero or less only if a piece of at most one step
did not fit. At zero the recursive call tries nine keys, which fit; below zero the rest
is taken for a large size and the assertion fails. Proved: `Partition`,
`ReadsInBounds`, `AbortsExplained`. An earlier `AbortsExplained`, which named the step
of 100, held in the instance and is false for long segments: the proof showed that any
power of ten from 100 on can be the step that fails.

**DebraProofs.** Whoever advances the epoch has looked at all announcements since it
read that epoch, so the epoch passes that of an announcing thread t at most once
(`Unscanned`, `GraceBounded`). A node that was not retired when t announced goes into a
current bag later. That bag comes round after three rotations in three epochs, which is
one too many (`Protected`). `SparedNotFreed` alone is not inductive: it needs to know
which bags of which thread may hold what t's announcement protects. Nothing in this
depends on how nodes are reached. What `find` reads is protected because nothing of a list
in its place is retired (`LinkedIsNew`, from the order of swap and `reclaimMem`), and what
is not retired now was not when t announced (`Spares`). Proved: `TypeOK`, `ScanInBounds`,
`GraceBounded`, `SparedNotFreed`, `FreedReadsExplained`.

**FreezeListProofs.** A step does one of five things to the list: nothing, link a node,
skip a marked node, mark a node, freeze a pointer. Unmarked nodes can be reached from
the head and form one ascending chain, so no key of the set lies between an unmarked
node and its successor; this is what `find` concludes from. A search has, at every
moment, a set of nodes closed under `next` that leave its key out only if the set was
once without it (`Searching`). A collect leaves a frozen path from the head to where it
is (`Collecting`); when it has reached the tail the path is the whole list, and no
insert finds a pointer to change. That an ascending chain has a least element is taken
from the well-foundedness of the natural numbers. Proved: `TypeOK`, `Sorted`,
`LiveReachable`, `ResultsWitnessed`, `CollectExact`, that no key is linked once a collect
has returned (`NothingInsertedLate`), and `ImplementsSet`, the refinement of
`FreezableSet`, one lemma per action. The refinement needs two more invariants: a call
has a result exactly when it is about to return, and a pointer that it has loaded is frozen
only if the freezing has begun, so that no update is refused before (`Answering`); and a
collect has pushed nodes with keys, the tail at most as the last, so that what it returns
without the last are keys (`Pulling`).

**KanvaBinProofs.** A list that is not closed belongs to a leaf of the current root
(`Open`). So an insert that links its key, on whatever root it had loaded, links it into
the tree that finds search; and into the right leaf, because the split of another leaf
moves no separator of this one (`Inserts`, `Evolves`). A root changes only by the split
of a closed leaf, which keeps its keys, and not at all once it is marked: whoever
collects the marked root collects the tree, and all who do collect the same keys
(`Gathers`, `Trained`). Only a marked root has empty frozen leaves, so `split_root` never
halves an empty list (`Filled`). `LinkedKept` needs all of these. Proved: `TypeOK`,
`LinkedKept`, `LeavesInRange`, `CountCovers`, `MissedAreSeparators`; and, on the way, what
`std::lower_bound` returns over ascending separators (`RouteSplits`, `RouteFinds`) and
what `split_root` makes of a set (`Halves`). With one more invariant (`OnlyLinked`: leaves,
trained models and what lies below them have linked keys only) the set that finds
can reach equals the set of linked keys (`Exact`), and so changes only by the link of an
insert or an insert below the model, by that key (`Grows`): a split, a mark, a
retraining and the swap are invisible to finds.

**UruvBinProofs.** The invariant describes the position (`Position`: its nodes in one
ascending list, its versions in lines of older, stamped ones, what the model was trained
with, what has returned), the count of nodes (`Counted`) and what each thread may rely
on (`Writes`, `Collects`, `Queries`). A collect has only frozen pointers behind it, and
a key is linked behind an unfrozen one, never behind a collect: the collect that reaches
the end has every key, whichever thread froze which pointer, and all collects that reach
it have the same. What joins the versions of a frozen node is late, so a collect that
has passed a node lacks late versions only. An update that had returned at a query's
tick is stamped below the query's time and lies on the line of versions that the query
walks; the newest version below that time has all such updates at or behind it, or they
are on the old list only, which the replacement has lost. `Evolves` says what no step
undoes; the facts of a thread survive the steps of the others because of it. The
properties alone are not inductive: `LinkedKept` needs what every unfinished collect has,
and `CompletedSeen` needs what every unfinished query has read. Proved: `TypeOK`,
`LinkedKept`, `LostAreLate`, `CompletedSeen`, `ReclaimSound`, and `Evolves` itself as an
action property (`NothingUndone`). The proof showed that the
model's own update had not stamped the head it pushes onto, as
`VersionedArray::insert` does through `read`; `ModelWrite` now does.

Only model-checked: all liveness properties, which TLAPS cannot prove under fairness;
among them `Terminates` of the training. Every invariant of a run and
both refinements (the safety parts) are proved.

Two notes for whoever extends the proofs. tlapm reads `UNION A \cup B` as the union of
`A \cup B`, TLC as `(UNION A) \cup B`: write the parentheses. And the proofs of
`FreezeList`, `KanvaBin` and `UruvBin` take several minutes each from nothing.

## 6. What is not modelled

* Removals in a `Bin`: `remove_internal` has no `return` on its normal path, so
  after the first split the call's outcome is undefined. Removals in a freeze list
  are modelled. A removal of a key of a Kanva model's array is a plain store of -1,
  after which an insert of the key returns false; both are left out.
* The count of a bin's first leaf when the allocation holds a negative value or
  one from `child_max` on: the latter ends the program in `split_root`.
* The number of keys in a list (`Linked_List::count`) and in a bin (`Bin::size`):
  written, never read.
* `Linked_List::search` of the Uruv list, which compares a key's value with a variable
  that `find_retrain` has not set.
* The order in which `scan` visits the positions of a model and `rangequery` the
  models: `VersionedArray` lets a query read keys in any order.
* Floating-point regression and `piecewise_linear_model.h` (used only by
  `train_opt`, which nothing calls); `LF_LL1.h` (included nowhere).
* Of the vendored record manager: pools, allocators and other reclaimers than DEBRA;
  benchmarks and file input. That `find` meets no unfrozen pointer in a replaced list is
  a fact about `UruvBin` that `Debra` builds in.
* Arrays with equal keys in the searches: `LearnedSearch` has ascending ones, although
  the separators of a `Bin` can be trained twice (section 4).
* Timestamps are integers; `rangequery` truncates its timestamp to an `int`, which
  shows after 2^31 queries.
* Finedex, the (a,b)-trees, CIST and their libraries. They are most of the
  repository's lines (of some 119,000 lines of C and C++, Kanva's own are a few
  thousand), are other projects' code, and are only run by benchmarks for comparison:
  the share of all lines that this project models is small for that reason.

## 7. Plan

1. **Done**: tracker and clock with refinement and proofs; version lists with proofs;
   searches with proofs; freeze list; bin and model of Kanva (inserts and finds); Uruv
   list and the bins of Kanva_RS; reclamation; training.
2. **Done**: proofs about the training, the reclamation, the freeze list, Kanva's bin
   and the bins of Kanva_RS; every safety invariant of a run is proved, and so are the
   refinements of `VersionClock` and of `FreezableSet`.
3. **Left**: `KanvaBin` and `UruvBin` use `FreezableSet`'s and `VersionClock`'s steps by
   construction, and no theorem composes the modules; removals in a `Bin`, once
   `remove_internal` has an outcome to model; an abstract specification of a whole position,
   which the two known losses (findings 1 and 2) keep from being a plain map.
