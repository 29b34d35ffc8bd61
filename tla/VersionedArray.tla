--------------------------- MODULE VersionedArray ---------------------------
(***************************************************************************)
(* The version lists of Kanva_RS: every key of a trained model has a list  *)
(* of versions, the newest at vhead.  A version becomes visible to point   *)
(* operations when a compare-and-swap makes it the head, and receives its  *)
(* timestamp only afterwards, from the thread that pushed it or from any   *)
(* other that meets it (init_ts).  A range query that holds the timestamp  *)
(* T takes from every list the newest version whose timestamp is below T.  *)
(*                                                                         *)
(* The clock is the one of VersionClock, which TrackerList implements.     *)
(* Versions of a key are named 1, 2, ... in the order in which they became *)
(* the head, so that nextv of version i is i - 1 and 0 is nullptr.  The    *)
(* lists of Uruv/LF_LL.h follow the same protocol.                         *)
(***************************************************************************)
EXTENDS Integers, FiniteSets

CONSTANTS
    Thread,         \* the threads of the program
    Stalled,        \* the threads that the scheduler may abandon
    Value,          \* the values a key may be given
    Removed,        \* the value -1
    NKeys,          \* the keys of the model are 1 .. NKeys, in order
    MaxVersion,     \* bound: the versions of a key
    MaxClock        \* bound: the range queries

ASSUME BoundsAssumption ==
    /\ NKeys \in Nat \ {0}
    /\ MaxVersion \in Nat \ {0}
    /\ MaxClock \in Nat
    /\ Removed \notin Value

Invalid == -1                   \* the timestamp of a new Vnode

Key == 1 .. NKeys
Version == 1 .. MaxVersion

VARIABLES
    clock, call, qts, floor,    \* the version clock; qts[t] is the timestamp of t's query
    val,            \* val[k][i]: Vnode::value of version i of key k
    ts,             \* ts[k][i]: Vnode::ts
    vhead,          \* vhead[k]: VersionedArray::vhead
    pc,             \* pc[t]: the statement t is about to execute
    ret,            \* ret[t]: where init_ts returns to
    key,            \* key[t]: the key t works on
    new,            \* new[t]: the value t wants to write
    old,            \* old[t]: curr_value of insert
    node,           \* node[t]: the version t points at
    global,         \* global[t]: global_ts of init_ts
    got,            \* got[t][k]: the version of k that t's query returned
    read,           \* read[t]: the keys t's query has read
    \* history
    complete,       \* complete[k]: the newest version whose insert has returned
    before,         \* before[k][i]: complete when version i of k was pushed
    atTick          \* atTick[t]: complete when t's query received its timestamp

tracker == <<clock, call, qts, floor>>
lists == <<val, ts, vhead>>
locals == <<key, new, old, node, global>>
query == <<got, read>>
history == <<complete, before, atTick>>
vars == <<tracker, lists, pc, ret, locals, query, history>>

Clock == INSTANCE VersionClock WITH stamp <- qts

\* The first constructor: a trained key has one version, not yet stamped.
Init ==
    /\ Clock!Init
    /\ val \in [Key -> {[i \in Version |-> v] : v \in Value}]
    /\ ts = [k \in Key |-> [i \in Version |-> Invalid]]
    /\ vhead = [k \in Key |-> 1]
    /\ pc = [t \in Thread |-> "idle"]
    /\ ret = [t \in Thread |-> "idle"]
    /\ key = [t \in Thread |-> 1]
    /\ new = [t \in Thread |-> Removed]
    /\ old = [t \in Thread |-> Removed]
    /\ node = [t \in Thread |-> 1]
    /\ global = [t \in Thread |-> 0]
    /\ got = [t \in Thread |-> [k \in Key |-> 0]]
    /\ read = [t \in Thread |-> {}]
    /\ complete = [k \in Key |-> 0]
    /\ before = [k \in Key |-> [i \in Version |-> [j \in Key |-> 0]]]
    /\ atTick = [t \in Thread |-> [k \in Key |-> 0]]

Goto(t, from, to) ==
    /\ pc[t] = from
    /\ pc' = [pc EXCEPT ![t] = to]

\* The locals of t go out of scope.
Forget(t) ==
    /\ ret' = [ret EXCEPT ![t] = "idle"]
    /\ key' = [key EXCEPT ![t] = 1]
    /\ new' = [new EXCEPT ![t] = Removed]
    /\ old' = [old EXCEPT ![t] = Removed]
    /\ node' = [node EXCEPT ![t] = 1]
    /\ UNCHANGED global

\* getValue
Current(k) == val[k][vhead[k]]

-----------------------------------------------------------------------------
(* init_ts(node), after which t continues at ret *)

CallInitTs(t, i, from, to) ==
    /\ Goto(t, from, "stamp")
    /\ node' = [node EXCEPT ![t] = i]
    /\ ret' = [ret EXCEPT ![t] = to]

StampLoad(t) ==
    /\ Goto(t, "stamp", IF ts[key[t]][node[t]] = Invalid THEN "stampCAS" ELSE ret[t])
    /\ global' = [global EXCEPT ![t] = IF ts[key[t]][node[t]] = Invalid THEN clock ELSE 0]
    /\ UNCHANGED <<tracker, lists, ret, key, new, old, node, query, history>>

\* Mutant: wait for the thread that pushed the version to stamp it.
StampWait(t) == (ts[key[t]][node[t]] # Invalid \/ ret[t] = "pushed") /\ StampLoad(t)

\* The test of ts and the read of the clock are one step: if another thread
\* stamps the version between them, the compare-and-swap below has no effect.
Stamp(t) == StampLoad(t)

StampWith(t, time) ==
    /\ Goto(t, "stampCAS", ret[t])
    /\ ts' = [ts EXCEPT ![key[t]][node[t]] = time]
    /\ global' = [global EXCEPT ![t] = 0]
    /\ UNCHANGED <<tracker, val, vhead, ret, key, new, old, node, query, history>>

StampCAS(t) ==
    StampWith(t, IF ts[key[t]][node[t]] = Invalid THEN global[t] ELSE ts[key[t]][node[t]])

-----------------------------------------------------------------------------
(* insert_retrain and remove of the model for one of its keys: the check of *)
(* getValue and VersionedArray::insert, where remove inserts -1             *)

Writers == {t \in Thread : pc[t] # "idle" /\ call[t] = "idle"}

Older == {p \in Key \X Version : p[2] < vhead[p[1]]}

\* Bound: as many updates as there are names for their versions.
CallInsert(t, k, v) ==
    /\ call[t] = "idle"
    /\ Cardinality(Older) + Cardinality(Writers) < MaxVersion - 1
    /\ Goto(t, "idle", "check")
    /\ key' = [key EXCEPT ![t] = k]
    /\ new' = [new EXCEPT ![t] = v]
    /\ UNCHANGED <<tracker, lists, ret, old, node, global, query, history>>

Return(t, from) ==
    /\ Goto(t, from, "idle")
    /\ Forget(t)

\* insert finds the key present, or remove finds it absent: nothing to do.
CheckFails(t) ==
    /\ (new[t] = Removed) = (Current(key[t]) = Removed)
    /\ Return(t, "check")
    /\ UNCHANGED <<tracker, lists, query, history>>

CheckPasses(t) ==
    /\ (new[t] = Removed) # (Current(key[t]) = Removed)
    /\ Goto(t, "check", "read")
    /\ UNCHANGED <<tracker, lists, ret, locals, query, history>>

\* read(): init_ts(vhead), and then a second load of vhead.
Read(t) ==
    /\ CallInitTs(t, vhead[key[t]], "read", "readValue")
    /\ UNCHANGED <<tracker, lists, key, new, old, global, query, history>>

ReadValue(t) ==
    /\ Current(key[t]) # new[t]
    /\ Goto(t, "readValue", "vCAS")
    /\ old' = [old EXCEPT ![t] = Current(key[t])]
    /\ UNCHANGED <<tracker, lists, ret, key, new, node, global, query, history>>

\* Another thread has just written the same value.
ReadSame(t) ==
    /\ Current(key[t]) = new[t]
    /\ Return(t, "readValue")
    /\ UNCHANGED <<tracker, lists, query, history>>

\* vCAS(): the third load of vhead, and init_ts.
LoadHead(t) ==
    /\ CallInitTs(t, vhead[key[t]], "vCAS", "push")
    /\ UNCHANGED <<tracker, lists, key, new, old, global, query, history>>

PushWith(t, time, goto) ==
    LET k == key[t]
        i == vhead[k] + 1
    IN  /\ val[k][node[t]] = old[t]
        /\ vhead[k] = node[t]
        /\ i <= MaxVersion
        /\ val' = [val EXCEPT ![k][i] = new[t]]
        /\ ts' = [ts EXCEPT ![k][i] = time]
        /\ vhead' = [vhead EXCEPT ![k] = i]
        /\ before' = [before EXCEPT ![k][i] = complete]
        /\ node' = [node EXCEPT ![t] = i]
        /\ ret' = [ret EXCEPT ![t] = "pushed"]
        /\ Goto(t, "push", goto)
        /\ UNCHANGED <<tracker, key, new, old, global, query, complete, atTick>>

\* Mutant: the version is created with timestamp 0.
PushZero(t) == PushWith(t, 0, "stamp")

\* Mutant: the thread leaves the timestamp to the next one that needs it.
PushUnstamped(t) == PushWith(t, Invalid, "pushed")

\* The compare-and-swap on vhead succeeds: the new version is the head, and
\* init_ts follows.
Push(t) == PushWith(t, Invalid, "stamp")

\* The head has another value or is another version: start again.
PushFail(t) ==
    /\ val[key[t]][node[t]] # old[t] \/ vhead[key[t]] # node[t]
    /\ Goto(t, "push", "read")
    /\ UNCHANGED <<tracker, lists, ret, locals, query, history>>

\* The version has been stamped.  insert returns 0, that is false, as it does when it
\* finds the value there: the result says nothing and is left out.
ReturnInsert(t) ==
    /\ Return(t, "pushed")
    /\ complete' = [complete EXCEPT
          ![key[t]] = IF @ < node[t] THEN node[t] ELSE @]
    /\ UNCHANGED <<tracker, lists, query, before, atTick>>

-----------------------------------------------------------------------------
(* A range query: rangequery with the part of scan that reads model_array *)

CallQuery(t) ==
    /\ pc[t] = "idle"
    /\ clock + Cardinality({u \in Thread : call[u] = "pending"}) < MaxClock
    /\ Clock!Request(t)
    /\ UNCHANGED <<lists, pc, ret, locals, query, history>>

\* add_timestamp
Tick(t) ==
    /\ Clock!Tick(t)
    /\ atTick' = [atTick EXCEPT ![t] = complete]
    /\ Goto(t, "idle", "scan")
    /\ UNCHANGED <<lists, ret, locals, query, complete, before>>

\* Mutant: getVersionedValue does not stamp the head.
VersionedLoadOnly(t, k) ==
    /\ \A j \in read[t] : j < k
    /\ Goto(t, "scan", "walk")
    /\ key' = [key EXCEPT ![t] = k]
    /\ node' = [node EXCEPT ![t] = vhead[k]]
    /\ UNCHANGED <<tracker, lists, ret, new, old, global, query, history>>

\* Mutant: getVersionedValue starts behind the head.
VersionedLoadNext(t, k) ==
    /\ \A j \in read[t] : j < k
    /\ key' = [key EXCEPT ![t] = k]
    /\ CallInitTs(t, vhead[k] - 1, "scan", "walk")
    /\ UNCHANGED <<tracker, lists, new, old, global, query, history>>

\* getVersionedValue of a key: scan visits the keys in ascending order, from
\* the first one in the range to the last one it has room for.
VersionedLoad(t, k) ==
    /\ \A j \in read[t] : j < k
    /\ key' = [key EXCEPT ![t] = k]
    /\ CallInitTs(t, vhead[k], "scan", "walk")
    /\ UNCHANGED <<tracker, lists, new, old, global, query, history>>

\* Mutant: a version with the timestamp of the query counts as older.
WalkEndsEqual(k, i, T, j) ==
    /\ j # 0 => ts[k][j] <= T
    /\ \A l \in j + 1 .. i : ts[k][l] > T

\* The walk along nextv from version i ends at j, the newest version whose
\* timestamp is below T, or at 0.
WalkEnds(k, i, T, j) ==
    /\ j # 0 => ts[k][j] < T
    /\ \A l \in j + 1 .. i : ts[k][l] >= T

\* The walk is one step: only the head of a list can lack a timestamp, and the
\* head that t loaded has one.
Walk(t) ==
    /\ \E j \in 0 .. node[t] :
          /\ WalkEnds(key[t], node[t], qts[t], j)
          /\ got' = [got EXCEPT ![t][key[t]] = j]
    /\ read' = [read EXCEPT ![t] = @ \cup {key[t]}]
    /\ Goto(t, "walk", "scan")
    /\ Forget(t)
    /\ UNCHANGED <<tracker, lists, history>>

\* tracker_node->finish = true
ReturnQuery(t) ==
    /\ Goto(t, "scan", "idle")
    /\ Clock!Finish(t)
    /\ read' = [read EXCEPT ![t] = {}]
    /\ got' = [got EXCEPT ![t] = [k \in Key |-> 0]]
    /\ atTick' = [atTick EXCEPT ![t] = [k \in Key |-> 0]]
    /\ Forget(t)
    /\ UNCHANGED <<lists, complete, before>>

-----------------------------------------------------------------------------
Step(t) ==
    \/ Stamp(t) \/ StampCAS(t)
    \/ CheckFails(t) \/ CheckPasses(t) \/ Read(t) \/ ReadValue(t) \/ ReadSame(t)
    \/ LoadHead(t) \/ Push(t) \/ PushFail(t) \/ ReturnInsert(t)
    \/ Tick(t) \/ Walk(t) \/ ReturnQuery(t)

Next ==
    \E t \in Thread :
        \/ Step(t)
        \/ CallQuery(t)
        \/ \E k \in Key : VersionedLoad(t, k)
        \/ \E k \in Key, v \in Value \cup {Removed} : CallInsert(t, k, v)

Spec == Init /\ [][Next]_vars

\* The scheduler runs every thread except those of Stalled.
FairSpec == Spec /\ \A t \in Thread \ Stalled : WF_vars(Step(t))

-----------------------------------------------------------------------------
(* Properties *)

PC == {"idle", "stamp", "stampCAS", "check", "read", "readValue", "vCAS", "push", "pushed",
       "scan", "walk"}

\* Every variable has its type.
TypeOK ==
    /\ clock \in Nat
    /\ call \in [Thread -> {"idle", "pending", "stamped"}]
    /\ qts \in [Thread -> Nat]
    /\ floor \in Nat
    /\ val \in [Key -> [Version -> Value \cup {Removed}]]
    /\ ts \in [Key -> [Version -> Nat \cup {Invalid}]]
    /\ vhead \in [Key -> Version]
    /\ pc \in [Thread -> PC]
    /\ ret \in [Thread -> {"idle", "readValue", "push", "pushed", "walk"}]
    /\ key \in [Thread -> Key]
    /\ new \in [Thread -> Value \cup {Removed}]
    /\ old \in [Thread -> Value \cup {Removed}]
    /\ node \in [Thread -> Version]
    /\ global \in [Thread -> Nat]
    /\ got \in [Thread -> [Key -> 0 .. MaxVersion]]
    /\ read \in [Thread -> SUBSET Key]
    /\ complete \in [Key -> 0 .. MaxVersion]
    /\ before \in [Key -> [Version -> [Key -> 0 .. MaxVersion]]]
    /\ atTick \in [Thread -> [Key -> 0 .. MaxVersion]]

\* Along a list timestamps do not increase, and only the head can lack one:
\* getVersionedValue compares the timestamps of older versions without init_ts.
VersionsOrdered ==
    \A k \in Key : \A i \in 1 .. vhead[k] - 1 :
        /\ ts[k][i] # Invalid
        /\ ts[k][i + 1] # Invalid => ts[k][i] <= ts[k][i + 1]

\* The query of t is running.
Active(t) == call[t] = "stamped"

\* What a query has read stays what its timestamp selects: no version is ever
\* stamped below T behind the back of a query that already passed the key.
SnapshotStable ==
    \A t \in Thread : Active(t) =>
        \A k \in read[t] : \A i \in Version :
            /\ i = got[t][k] => ts[k][i] # Invalid /\ ts[k][i] < qts[t]
            /\ got[t][k] < i /\ i <= vhead[k] => ts[k][i] = Invalid \/ ts[k][i] >= qts[t]

\* A query sees every update that had returned when it obtained its timestamp.
CompletedSeen ==
    \A t \in Thread : Active(t) => \A k \in read[t] : got[t][k] >= atTick[t][k]

\* A query that sees an update sees the updates of all keys that had returned
\* before that update took effect: its result is one moment of the history.
ConsistentCut ==
    \A t \in Thread : Active(t) =>
        \A k, j \in read[t] : got[t][k] # 0 => got[t][j] >= before[k][got[t][k]][j]

\* A timestamp is set once, whoever sets it.
StampedOnce ==
    [][\A k \in Key, i \in Version : ts[k][i] # Invalid => ts'[k][i] = ts[k][i]]_vars

\* insert and remove return although other threads may have stopped between
\* pushing a version and stamping it, once the competing updates are finitely
\* many (CallInsert bounds them).
UpdateReturns ==
    \A t \in Thread \ Stalled : pc[t] = "check" ~> pc[t] = "idle"

=============================================================================
