------------------------ MODULE VersionedArrayProofs ------------------------
(***************************************************************************)
(* Proofs, for any threads, keys, values and bounds, that the range        *)
(* queries of VersionedArray return a consistent cut of the updates.       *)
(*                                                                         *)
(* The argument: a version that becomes the head of its list after a query *)
(* received the timestamp T is late for that query: every thread that will *)
(* stamp it reads the clock after that, so it is stamped with T or more.   *)
(* The query stamps the head it loads before it walks, so the versions     *)
(* above the one it returns are late or have been stamped with T or more.  *)
(***************************************************************************)
EXTENDS VersionedArray, TLAPS

-----------------------------------------------------------------------------
(* The inductive invariant *)

\* Versions that do not exist have no timestamp, hidden ones have one, and
\* timestamps grow from the oldest version to the newest up to the clock.
Lists ==
    \A k \in Key : \A i \in Version :
        /\ i < vhead[k] => ts[k][i] # Invalid
        /\ vhead[k] < i => ts[k][i] = Invalid
        /\ ts[k][i] <= clock
        /\ \A j \in Version : i <= j /\ ts[k][j] # Invalid => ts[k][i] <= ts[k][j]

\* t is about to stamp version i of k, which nobody has stamped yet.
Stamping(t, k, i) ==
    pc[t] = "stampCAS" /\ key[t] = k /\ node[t] = i /\ ts[k][i] = Invalid

\* t executes init_ts.
InInitTs(t) == pc[t] \in {"stamp", "stampCAS"}

\* Pointers point into the list, init_ts has done its work when it returns, and
\* the time it is going to write is not below that of an older version.
Locals(t) ==
    /\ InInitTs(t) \/ pc[t] \in {"push", "pushed", "walk"} => node[t] <= vhead[key[t]]
    /\ InInitTs(t) => ret[t] # "idle"
    /\ pc[t] \in {"push", "pushed", "walk"} => ts[key[t]][node[t]] # Invalid
    /\ Active(t) <=> pc[t] \in {"scan", "walk"} \/ (InInitTs(t) /\ ret[t] = "walk")
    /\ call[t] = "pending" => pc[t] = "idle"
    /\ ~ Active(t) => read[t] = {}
    /\ global[t] <= clock
    /\ \A k \in Key : \A i \in Version : Stamping(t, k, i) =>
          \A j \in Version : j < i => ts[k][j] <= global[t]

\* Version i of k has not been and will not be stamped below T.
Late(k, i, T) ==
    /\ ts[k][i] = Invalid \/ ts[k][i] >= T
    /\ \A t \in Thread : Stamping(t, k, i) => global[t] >= T

\* Version i of k exists and has a timestamp below T.
Early(k, i, T) == i <= vhead[k] /\ ts[k][i] # Invalid /\ ts[k][i] < T

\* A running query knows that all versions above the one it returned, or above
\* the one it is looking at, are late.
Query(t) ==
    Active(t) =>
        /\ qts[t] <= clock
        /\ \A k \in Key : atTick[t][k] # 0 => Early(k, atTick[t][k], qts[t])
        /\ \A k \in read[t] :
              /\ got[t][k] # 0 => Early(k, got[t][k], qts[t])
              /\ \A i \in Version : got[t][k] < i => Late(k, i, qts[t])
        /\ pc[t] # "scan" =>
              \A i \in Version : node[t] < i => Late(key[t], i, qts[t])

\* Updates that have returned are stamped, and what was complete when a version
\* was pushed has a timestamp that is not above that of the version.
History ==
    /\ \A k \in Key : complete[k] # 0 => Early(k, complete[k], clock + 1)
    /\ \A k, j \in Key : \A i \in Version : before[k][i][j] # 0 =>
          /\ Early(j, before[k][i][j], clock + 1)
          /\ ts[k][i] # Invalid => ts[j][before[k][i][j]] <= ts[k][i]
          /\ \A t \in Thread : Stamping(t, k, i) => ts[j][before[k][i][j]] <= global[t]

IInv ==
    TypeOK /\ Lists /\ (\A t \in Thread : Locals(t)) /\ (\A t \in Thread : Query(t)) /\ History

-----------------------------------------------------------------------------
(* What every step does to the lists, seen by the threads that do not take it *)

\* Lists grow, set timestamps stay, the clock does not run backwards.
Grow ==
    /\ clock <= clock'
    /\ \A k \in Key : vhead[k] <= vhead'[k]
    /\ \A k \in Key : \A i \in Version : ts[k][i] # Invalid => ts'[k][i] = ts[k][i]

\* What is late for a query stays late.
LateStays ==
    \A k \in Key : \A i \in Version : \A T \in Nat :
        T <= clock /\ Late(k, i, T) => Late(k, i, T)'

\* u does not move.
Still(u) ==
    UNCHANGED <<pc[u], ret[u], key[u], node[u], global[u], call[u], qts[u], got[u], read[u], atTick[u]>>

\* The integers of the state.
NumbersOK ==
    /\ clock \in Nat
    /\ \A k \in Key : vhead[k] \in Version /\ (complete[k] # 0 => complete[k] \in Version)
    /\ \A k \in Key : \A i \in Version : ts[k][i] \in Int /\ ts[k][i] >= -1
    /\ \A k, j \in Key : \A i \in Version : before[k][i][j] # 0 => before[k][i][j] \in Version
    /\ \A t \in Thread :
          key[t] \in Key /\ node[t] \in Version /\ global[t] \in Nat /\ qts[t] \in Nat
    /\ \A t \in Thread : read[t] \subseteq Key
    /\ \A t \in Thread : \A k \in Key :
          /\ got[t][k] \in Nat /\ (got[t][k] # 0 => got[t][k] \in Version)
          /\ atTick[t][k] # 0 => atTick[t][k] \in Version

LEMMA Constants ==
    /\ \A i \in Version : i \in Int /\ i >= 1
    /\ \A k \in Key : k \in Int
    /\ Invalid = -1
    /\ 1 \in Version /\ 1 \in Key
BY BoundsAssumption DEF Version, Key, Invalid

LEMMA Numbers == TypeOK => NumbersOK
<1> SUFFICES ASSUME TypeOK PROVE NumbersOK
  OBVIOUS
<1>1. \A n \in 0 .. MaxVersion : n \in Nat /\ (n # 0 => n \in Version)
  BY BoundsAssumption DEF Version
<1>2. \A n \in Nat \cup {Invalid} : n \in Int /\ n >= -1
  BY DEF Invalid
<1>3. \A k, j \in Key : \A i \in Version : before[k][i][j] # 0 => before[k][i][j] \in Version
  BY <1>1 DEF TypeOK
<1>4. \A k \in Key : \A i \in Version : ts[k][i] \in Int /\ ts[k][i] >= -1
  BY <1>2 DEF TypeOK
<1>5. \A t \in Thread : \A k \in Key :
         /\ got[t][k] \in Nat /\ (got[t][k] # 0 => got[t][k] \in Version)
         /\ atTick[t][k] # 0 => atTick[t][k] \in Version
  BY <1>1 DEF TypeOK
<1> QED BY <1>1, <1>3, <1>4, <1>5 DEF TypeOK, NumbersOK

LEMMA NumbersNext == TypeOK' => NumbersOK'
BY Numbers, PTL

\* What is early stays early.
LEMMA EarlyStays ==
    ASSUME IInv, TypeOK', Grow, NEW k \in Key, NEW i \in Version, NEW T \in Nat, Early(k, i, T)
    PROVE  Early(k, i, T)'
BY Numbers, NumbersNext, Constants DEF IInv, Grow, Early, NumbersOK

\* A thread that does not move keeps its part of the invariant.
LEMMA OtherThread ==
    ASSUME IInv, TypeOK', Grow, LateStays, NEW u \in Thread, Still(u)
    PROVE  Locals(u)' /\ Query(u)'
<1> USE Numbers, NumbersNext, Constants DEF IInv, NumbersOK
<1>1. ASSUME NEW k \in Key, NEW i \in Version, NEW j \in Version, Stamping(u, k, i)', j < i
      PROVE  ts'[k][j] <= global'[u]
  <2>1. Stamping(u, k, i)
    BY <1>1 DEF Stamping, Still, Grow
  <2>2. i <= vhead[k]
    BY <2>1 DEF Locals, Stamping, InInitTs
  <2>3. ts[k][j] # Invalid
    BY <1>1, <2>2 DEF Lists
  <2> QED BY <1>1, <2>1, <2>3 DEF Locals, Grow, Still
<1>2. Locals(u)'
  <2>1. Locals(u)
    OBVIOUS
  <2>2. node'[u] = node[u] /\ key'[u] = key[u] /\ vhead[key[u]] <= vhead'[key[u]]
    BY DEF Still, Grow
  <2>3. InInitTs(u)' \/ pc'[u] \in {"push", "pushed", "walk"} => node'[u] <= vhead'[key'[u]]
    BY <2>1, <2>2 DEF Locals, InInitTs, Still
  <2>4. pc'[u] \in {"push", "pushed", "walk"} => ts'[key'[u]][node'[u]] # Invalid'
    BY <2>1, <2>2 DEF Locals, Still, Grow, Invalid
  <2>5. global'[u] <= clock'
    BY <2>1 DEF Locals, Still, Grow
  <2> QED BY <1>1, <2>1, <2>3, <2>4, <2>5 DEF Locals, InInitTs, Still, Active
<1>3. Query(u)'
  <2> SUFFICES ASSUME Active(u)'
               PROVE  Query(u)'
    BY DEF Query
  <2>1. Active(u) /\ Query(u)
    BY DEF Still, Active
  <2>2. qts'[u] = qts[u] /\ qts[u] <= clock /\ qts'[u] <= clock'
    BY <2>1 DEF Query, Still, Grow
  <2>3. ASSUME NEW k \in Key, NEW i \in Version, Early(k, i, qts[u])
        PROVE  Early(k, i, qts[u])'
    BY <2>2, <2>3 DEF Early, Grow
  <2>4. ASSUME NEW k \in Key, NEW i \in Version, Late(k, i, qts[u])
        PROVE  Late(k, i, qts[u])'
    <3>1. PICK T \in Nat : T = qts[u]
      OBVIOUS
    <3>2. Late(k, i, T)'
      BY <2>2, <2>4, <3>1 DEF LateStays
    <3> QED BY <2>2, <3>1, <3>2 DEF Late
  <2>5. \A k \in Key : atTick'[u][k] # 0 => Early(k, atTick[u][k], qts[u])'
    BY <2>1, <2>3 DEF Query, Still
  <2>6. ASSUME NEW k \in read'[u]
        PROVE  /\ got'[u][k] # 0 => Early(k, got[u][k], qts[u])'
               /\ \A i \in Version : got'[u][k] < i => Late(k, i, qts[u])'
    BY <2>1, <2>3, <2>4, <2>6 DEF Query, Still
  <2>7. pc'[u] # "scan" => \A i \in Version : node'[u] < i => Late(key[u], i, qts[u])'
    BY <2>1, <2>4 DEF Query, Still
  <2> QED BY <2>2, <2>5, <2>6, <2>7 DEF Query
<1> QED BY <1>2, <1>3

-----------------------------------------------------------------------------
(* Initial states *)

\* Trained lists satisfy the invariant.
LEMMA InitIInv == Init => IInv
<1> SUFFICES ASSUME Init PROVE IInv
  OBVIOUS
<1> USE Constants, BoundsAssumption
<1>1. TypeOK
  <2>1. val \in [Key -> [Version -> Value \cup {Removed}]]
    BY DEF Init
  <2>2. 0 \in 0 .. MaxVersion
    OBVIOUS
  <2> QED BY <2>1, <2>2 DEF Init, Clock!Init, TypeOK, PC, Invalid
<1>2. Lists
  BY DEF Init, Clock!Init, Lists
<1>3. ASSUME NEW t \in Thread PROVE Locals(t) /\ Query(t)
  BY DEF Init, Clock!Init, Locals, Query, InInitTs, Stamping, Active
<1>4. History
  BY DEF Init, Clock!Init, History
<1> QED BY <1>1, <1>2, <1>3, <1>4 DEF IInv

-----------------------------------------------------------------------------
(* Steps that leave the lists alone *)

\* No list changes and no thread gets ready to stamp a version.
Quiet ==
    /\ UNCHANGED <<ts, vhead>>
    /\ clock <= clock'
    /\ \A u \in Thread : pc'[u] = "stampCAS" =>
          UNCHANGED <<pc[u], key[u], node[u], global[u]>>

LEMMA QuietStep ==
    ASSUME IInv, TypeOK', Quiet
    PROVE  /\ Grow /\ LateStays /\ Lists'
           /\ UNCHANGED <<complete, before>> => History'
<1> USE Numbers, NumbersNext, Constants DEF IInv, NumbersOK
<1>1. Grow
  BY DEF Quiet, Grow
<1>2. \A u \in Thread : \A k \in Key : \A i \in Version :
         Stamping(u, k, i)' => Stamping(u, k, i) /\ global'[u] = global[u]
  BY DEF Quiet, Stamping, Invalid
<1>3. LateStays
  BY <1>2 DEF Quiet, LateStays, Late, Invalid
<1>4. Lists'
  BY DEF Quiet, Lists, Invalid
<1>5. ASSUME UNCHANGED <<complete, before>> PROVE History'
  <2>1. \A k \in Key : \A i \in Version : Early(k, i, clock + 1) => Early(k, i, clock + 1)'
    BY DEF Quiet, Early, Invalid
  <2>2. \A k \in Key : complete'[k] # 0 => Early(k, complete[k], clock + 1)'
    <3>1. \A k \in Key : complete[k] # 0 => Early(k, complete[k], clock + 1)
      BY DEF History
    <3> QED BY <1>5, <3>1, <2>1 DEF Quiet, Early, Invalid
  <2>3. ASSUME NEW k \in Key, NEW j \in Key, NEW i \in Version, before'[k][i][j] # 0
        PROVE  /\ Early(j, before[k][i][j], clock + 1)'
               /\ ts'[k][i] # Invalid' => ts'[j][before'[k][i][j]] <= ts'[k][i]
               /\ \A t \in Thread : Stamping(t, k, i)' => ts'[j][before'[k][i][j]] <= global'[t]
    <3>1. /\ Early(j, before[k][i][j], clock + 1)
          /\ ts[k][i] # Invalid => ts[j][before[k][i][j]] <= ts[k][i]
          /\ \A t \in Thread : Stamping(t, k, i) => ts[j][before[k][i][j]] <= global[t]
      BY <1>5, <2>3 DEF History
    <3>2. Early(j, before[k][i][j], clock + 1)'
      BY <1>5, <2>3, <3>1 DEF Quiet, Early, Invalid
    <3> QED BY <1>2, <1>5, <3>1, <3>2 DEF Quiet, Invalid
  <2> QED BY <2>2, <2>3 DEF History
<1> QED BY <1>1, <1>3, <1>4, <1>5

\* Enough to prove of a quiet step of t: types, and the part of t.
LEMMA QuietSuffices ==
    ASSUME IInv, TypeOK', Quiet, UNCHANGED <<complete, before>>,
           NEW t \in Thread, \A u \in Thread : u # t => Still(u),
           Locals(t)', Query(t)'
    PROVE  IInv'
<1>1. Grow /\ LateStays /\ Lists' /\ History'
  BY QuietStep
<1>2. \A u \in Thread : Locals(u)' /\ Query(u)'
  BY <1>1, OtherThread
<1> QED BY <1>1, <1>2 DEF IInv

\* The steps of an update that neither stamp nor push.
WriterMove(t) ==
    \/ \E k \in Key, v \in Value \cup {Removed} : CallInsert(t, k, v)
    \/ CheckFails(t) \/ CheckPasses(t) \/ Read(t) \/ ReadValue(t) \/ ReadSame(t)
    \/ LoadHead(t) \/ PushFail(t)

LEMMA WriterMoveType ==
    ASSUME IInv, NEW t \in Thread, WriterMove(t)
    PROVE  TypeOK'
<1> USE Constants DEF IInv, TypeOK, PC, Goto, tracker, lists, query, history, locals
<1>1. ASSUME NEW k \in Key, NEW v \in Value \cup {Removed}, CallInsert(t, k, v) PROVE TypeOK'
  BY <1>1 DEF CallInsert
<1>2. CASE CheckFails(t) \/ ReadSame(t)
  BY ZenonT(60), <1>2 DEF CheckFails, ReadSame, Return, Forget
<1>3. CASE CheckPasses(t) \/ PushFail(t)
  BY <1>3 DEF CheckPasses, PushFail
<1>4. CASE Read(t) \/ LoadHead(t)
  <2>1. /\ node' = [node EXCEPT ![t] = vhead[key[t]]]
        /\ pc' = [pc EXCEPT ![t] = "stamp"]
        /\ ret' = [ret EXCEPT ![t] = "readValue"] \/ ret' = [ret EXCEPT ![t] = "push"]
        /\ UNCHANGED <<clock, call, qts, floor, val, ts, vhead, key, new, old, global,
                       got, read, complete, before, atTick>>
    BY <1>4 DEF Read, LoadHead, CallInitTs
  <2>2. ret' \in [Thread -> {"idle", "readValue", "push", "pushed", "walk"}]
    BY <2>1
  <2> QED BY <2>1, <2>2
<1>5. CASE ReadValue(t)
  BY <1>5 DEF ReadValue, Current
<1> QED BY <1>1, <1>2, <1>3, <1>4, <1>5 DEF WriterMove

LEMMA WriterMoveStep ==
    ASSUME IInv, NEW t \in Thread, WriterMove(t)
    PROVE  IInv'
<1> USE Numbers, NumbersNext, Constants DEF NumbersOK
<1>1. TypeOK'
  BY WriterMoveType
<1>2. /\ UNCHANGED <<tracker, lists, query, history>>
      /\ pc[t] \in {"idle", "check", "read", "readValue", "vCAS", "push"}
      /\ pc[t] = "idle" => call[t] = "idle"
      /\ pc'[t] \in {"idle", "check", "read", "vCAS", "stamp"}
      /\ pc'[t] = "stamp" =>
            node'[t] = vhead[key[t]] /\ key'[t] = key[t] /\ ret'[t] \in {"readValue", "push"}
      /\ global' = global
  BY DEF IInv, TypeOK, WriterMove, CallInsert, CheckFails, CheckPasses, Read, ReadValue, ReadSame,
         LoadHead, PushFail, CallInitTs, Return, Forget, Goto, locals
<1>3. ASSUME NEW u \in Thread, u # t PROVE Still(u)
  BY <1>2, <1>3
     DEF IInv, TypeOK, WriterMove, CallInsert, CheckFails, CheckPasses, Read, ReadValue, ReadSame,
         LoadHead, PushFail, CallInitTs, Return, Forget, Goto, Still, tracker, query, history, locals
<1>4. Quiet
  BY <1>2, <1>3 DEF Quiet, Still, tracker, lists, IInv
<1>5. ~ Active(t) /\ call[t] # "pending"
  BY <1>2 DEF IInv, Locals, Active, InInitTs
<1>6. Locals(t)'
  <2>1. Locals(t)
    BY DEF IInv
  <2>2. node'[t] <= vhead'[key'[t]] \/ pc'[t] # "stamp"
    BY <1>1, <1>2 DEF lists, IInv
  <2> QED BY <1>2, <1>5, <2>1, <2>2
     DEF Locals, InInitTs, Stamping, Active, tracker, lists, query
<1>7. Query(t)'
  BY <1>2, <1>5 DEF Query, Active, tracker
<1> QED BY <1>1, <1>2, <1>3, <1>4, <1>6, <1>7, QuietSuffices DEF history

\* Asking for a timestamp and receiving it.
LEMMA TickStep ==
    ASSUME IInv, NEW t \in Thread, CallQuery(t) \/ Tick(t)
    PROVE  IInv'
<1> USE Numbers, NumbersNext, Constants DEF NumbersOK
<1>1. TypeOK'
  <2>1. CASE CallQuery(t)
    BY <2>1 DEF IInv, TypeOK, CallQuery, Clock!Request, lists, locals, query, history
  <2>2. CASE Tick(t)
    BY SMTT(60), <2>2 DEF IInv, TypeOK, Tick, Clock!Tick, Goto, PC, lists, locals, query
  <2> QED BY <2>1, <2>2
<1>2. /\ UNCHANGED <<lists, ret, locals, query, complete, before>>
      /\ clock <= clock'
      /\ pc[t] = "idle"
      /\ \/ pc'[t] = "idle" /\ call'[t] = "pending"
         \/ /\ pc'[t] = "scan" /\ call'[t] = "stamped" /\ call[t] = "pending"
            /\ clock' = clock + 1 /\ qts'[t] = clock + 1 /\ atTick'[t] = complete
  BY DEF IInv, TypeOK, CallQuery, Tick, Clock!Request, Clock!Tick, Goto, history
<1>3. ASSUME NEW u \in Thread, u # t PROVE Still(u)
  BY <1>2, <1>3
     DEF IInv, TypeOK, CallQuery, Tick, Clock!Request, Clock!Tick, Goto, Still, locals, query, history
<1>4. Quiet
  BY <1>2, <1>3 DEF Quiet, Still, lists, locals
<1>5. Locals(t)'
  <2>1. Locals(t)
    BY DEF IInv
  <2> QED BY <1>1, <1>2, <2>1 DEF IInv, Locals, InInitTs, Stamping, Active, lists, locals, query
<1>6. Query(t)'
  <2> SUFFICES ASSUME Active(t)' PROVE Query(t)'
    BY DEF Query
  <2>1. /\ pc'[t] = "scan" /\ call[t] = "pending"
        /\ clock' = clock + 1 /\ qts'[t] = clock + 1 /\ atTick'[t] = complete
    BY <1>2 DEF Active
  <2>2. read'[t] = {}
    BY <1>2, <2>1 DEF query, IInv, Locals, Active
  <2>3. \A k \in Key : atTick'[t][k] # 0 => Early(k, atTick[t][k], qts[t])'
    BY <1>2, <2>1 DEF IInv, History, Early, lists, Invalid
  <2> QED BY <1>1, <2>1, <2>2, <2>3 DEF Query
<1> QED BY <1>1, <1>2, <1>3, <1>4, <1>5, <1>6, QuietSuffices

\* Loading a head: the versions above it do not exist yet, so they are late.
LEMMA VersionedLoadStep ==
    ASSUME IInv, NEW t \in Thread, NEW k \in Key, VersionedLoad(t, k)
    PROVE  IInv'
<1> USE Numbers, NumbersNext, Constants DEF NumbersOK
<1>1. /\ UNCHANGED <<tracker, lists, global, query, history>>
      /\ pc[t] = "scan" /\ pc' = [pc EXCEPT ![t] = "stamp"]
      /\ ret' = [ret EXCEPT ![t] = "walk"]
      /\ key' = [key EXCEPT ![t] = k]
      /\ node' = [node EXCEPT ![t] = vhead[k]]
      /\ UNCHANGED <<new, old>>
  BY DEF VersionedLoad, CallInitTs, Goto
<1>2. TypeOK'
  BY <1>1 DEF IInv, TypeOK, PC, tracker, lists, query, history
<1>3. ASSUME NEW u \in Thread, u # t PROVE Still(u)
  BY <1>1, <1>3 DEF IInv, TypeOK, Still, tracker, query, history
<1>4. /\ pc'[t] = "stamp" /\ ret'[t] = "walk" /\ key'[t] = k /\ node'[t] = vhead[k]
  BY <1>1 DEF IInv, TypeOK
<1>5. Quiet
  BY <1>1, <1>3, <1>4 DEF Quiet, Still, tracker, lists, IInv
<1>6. Active(t) /\ Locals(t) /\ Query(t)
  BY <1>1 DEF IInv, Locals
<1>7. Locals(t)'
  BY <1>1, <1>2, <1>4, <1>6 DEF IInv, Locals, InInitTs, Stamping, Active, tracker, lists, query
<1>8. LateStays /\ Grow
  BY <1>2, <1>5, QuietStep
<1>9. ASSUME NEW i \in Version, vhead[k] < i PROVE Late(k, i, qts[t])'
  <2>1. ts'[k][i] = Invalid
    BY <1>1, <1>9 DEF IInv, Lists, lists
  <2>2. \A u \in Thread : ~ Stamping(u, k, i)'
    BY <1>1, <1>3, <1>4, <1>9 DEF IInv, Locals, Stamping, InInitTs, Still, lists
  <2> QED BY <2>1, <2>2 DEF Late, Invalid
<1>10. Query(t)'
  <2>1. \A j \in Key : \A i \in Version : Early(j, i, qts[t]) => Early(j, i, qts[t])'
    BY <1>1 DEF Early, lists, tracker, Invalid
  <2>2. ASSUME NEW j \in Key, NEW i \in Version, Late(j, i, qts[t])
        PROVE  Late(j, i, qts[t])'
    <3>1. PICK T \in Nat : T = qts[t]
      BY DEF IInv
    <3>2. Late(j, i, T)'
      BY <1>6, <1>8, <2>2, <3>1 DEF Query, LateStays
    <3> QED BY <1>1, <3>1, <3>2 DEF Late, tracker
  <2>3. \A j \in Key : atTick'[t][j] # 0 => Early(j, atTick[t][j], qts[t])'
    BY <1>1, <1>6, <2>1 DEF IInv, Query, history
  <2>4. ASSUME NEW j \in read'[t]
        PROVE  /\ got'[t][j] # 0 => Early(j, got[t][j], qts[t])'
               /\ \A i \in Version : got'[t][j] < i => Late(j, i, qts[t])'
    BY <1>1, <1>6, <2>1, <2>2, <2>4 DEF IInv, Query, query
  <2>5. \A i \in Version : node'[t] < i => Late(key[t], i, qts[t])'
    BY <1>4, <1>9 DEF Late, Stamping
  <2>6. qts'[t] <= clock'
    BY <1>1, <1>6 DEF Query, tracker
  <2> QED BY <2>3, <2>4, <2>5, <2>6 DEF Query
<1> QED BY <1>1, <1>2, <1>3, <1>5, <1>7, <1>10, QuietSuffices DEF history

\* The walk ends at a version above which all are late.
LEMMA WalkStep ==
    ASSUME IInv, NEW t \in Thread, Walk(t)
    PROVE  IInv'
<1> USE Numbers, NumbersNext, Constants DEF NumbersOK
<1>1. PICK j \in 0 .. node[t] :
         WalkEnds(key[t], node[t], qts[t], j) /\ got' = [got EXCEPT ![t][key[t]] = j]
  BY DEF Walk
<1>2. /\ UNCHANGED <<tracker, lists, global, history>>
      /\ pc[t] = "walk" /\ pc' = [pc EXCEPT ![t] = "scan"]
      /\ read' = [read EXCEPT ![t] = @ \cup {key[t]}]
      /\ ret' = [ret EXCEPT ![t] = "idle"] /\ key' = [key EXCEPT ![t] = 1]
      /\ new' = [new EXCEPT ![t] = Removed] /\ old' = [old EXCEPT ![t] = Removed]
      /\ node' = [node EXCEPT ![t] = 1]
  BY DEF Walk, Goto, Forget
<1>3. j \in 0 .. MaxVersion
  BY BoundsAssumption DEF IInv, TypeOK, Version
<1>4. TypeOK'
  <2>1. got' \in [Thread -> [Key -> 0 .. MaxVersion]]
    BY <1>1, <1>3 DEF IInv, TypeOK
  <2>2. read' \in [Thread -> SUBSET Key]
    BY <1>2 DEF IInv, TypeOK
  <2> QED BY <1>2, <2>1, <2>2 DEF IInv, TypeOK, PC, tracker, lists, history
<1>5. ASSUME NEW u \in Thread, u # t PROVE Still(u)
  BY <1>1, <1>2, <1>5 DEF IInv, TypeOK, Still, tracker, history
<1>6. pc'[t] = "scan"
  BY <1>2 DEF IInv, TypeOK
<1>7. Quiet
  BY <1>2, <1>5, <1>6 DEF Quiet, Still, tracker, lists, IInv
<1>8. Active(t) /\ Locals(t) /\ Query(t)
  BY <1>2 DEF IInv, Locals
<1>9. Locals(t)'
  BY <1>2, <1>4, <1>6, <1>8 DEF IInv, Locals, InInitTs, Stamping, Active, tracker, lists
<1>10. LateStays /\ Grow
  BY <1>4, <1>7, QuietStep
<1>11. Query(t)'
  <2>1. \A k \in Key : \A i \in Version : Early(k, i, qts[t]) => Early(k, i, qts[t])'
    BY <1>2 DEF Early, lists, tracker, Invalid
  <2>2. ASSUME NEW k \in Key, NEW i \in Version, Late(k, i, qts[t])
        PROVE  Late(k, i, qts[t])'
    <3>1. PICK T \in Nat : T = qts[t]
      BY DEF IInv
    <3>2. Late(k, i, T)'
      BY <1>8, <1>10, <2>2, <3>1 DEF Query, LateStays
    <3> QED BY <1>2, <3>1, <3>2 DEF Late, tracker
  <2>3. \A k \in Key : atTick'[t][k] # 0 => Early(k, atTick[t][k], qts[t])'
    BY <1>2, <1>8, <2>1 DEF IInv, Query, history
  <2>4. node[t] <= vhead[key[t]] /\ ts[key[t]][node[t]] # Invalid
    BY <1>2, <1>8 DEF Locals
  <2>5. ASSUME NEW i \in Version, i <= node[t] PROVE ts[key[t]][i] # Invalid
    <3>1. CASE i = node[t]
      BY <2>4, <3>1
    <3>2. CASE i # node[t]
      <4>1. i < vhead[key[t]] /\ key[t] \in Key
        BY <2>4, <2>5, <3>2 DEF IInv
      <4> QED BY <4>1 DEF IInv, Lists
    <3> QED BY <3>1, <3>2
  <2>6. j # 0 => Early(key[t], j, qts[t])
    <3> SUFFICES ASSUME j # 0 PROVE Early(key[t], j, qts[t])
      OBVIOUS
    <3>1. j \in Version /\ j <= node[t]
      BY <1>3 DEF Version, IInv
    <3> QED BY <1>1, <2>4, <2>5, <3>1 DEF WalkEnds, Early, IInv
  <2>7. ASSUME NEW i \in Version, j < i PROVE Late(key[t], i, qts[t])
    <3>1. CASE node[t] < i
      BY <1>2, <1>8, <2>7, <3>1 DEF Query
    <3>2. CASE i <= node[t]
      <4>1. ts[key[t]][i] >= qts[t]
        BY <1>1, <2>7, <3>2 DEF WalkEnds, IInv
      <4> QED BY <2>5, <3>2, <4>1 DEF Late, Stamping
    <3> QED BY <3>1, <3>2 DEF IInv
  <2>8. ASSUME NEW k \in read'[t]
        PROVE  /\ got'[t][k] # 0 => Early(k, got[t][k], qts[t])'
               /\ \A i \in Version : got'[t][k] < i => Late(k, i, qts[t])'
    <3>1. CASE k = key[t]
      <4>1. got'[t][k] = j
        BY <1>1, <3>1 DEF IInv, TypeOK
      <4>2. j # 0 => Early(k, j, qts[t])'
        BY <1>3, <2>1, <2>6, <3>1 DEF IInv, Version, Early, tracker
      <4> QED BY <2>2, <2>7, <3>1, <4>1, <4>2 DEF IInv, Early
    <3>2. CASE k # key[t]
      <4>1. got'[t][k] = got[t][k] /\ k \in read[t]
        BY <1>1, <1>2, <2>8, <3>2 DEF IInv, TypeOK
      <4> QED BY <1>8, <2>1, <2>2, <4>1 DEF IInv, Query
    <3> QED BY <3>1, <3>2
  <2>9. qts'[t] <= clock'
    BY <1>2, <1>8 DEF Query, tracker
  <2> QED BY <1>6, <2>3, <2>8, <2>9 DEF Query
<1> QED BY <1>2, <1>4, <1>5, <1>7, <1>9, <1>11, QuietSuffices DEF history

\* The end of a query.
LEMMA ReturnQueryStep ==
    ASSUME IInv, NEW t \in Thread, ReturnQuery(t)
    PROVE  IInv'
<1> USE Numbers, NumbersNext, Constants DEF NumbersOK
<1>1. /\ UNCHANGED <<clock, floor, lists, global, complete, before>>
      /\ pc[t] = "scan" /\ pc' = [pc EXCEPT ![t] = "idle"]
      /\ call' = [call EXCEPT ![t] = "idle"] /\ qts' = [qts EXCEPT ![t] = 0]
      /\ read' = [read EXCEPT ![t] = {}]
      /\ got' = [got EXCEPT ![t] = [k \in Key |-> 0]]
      /\ atTick' = [atTick EXCEPT ![t] = [k \in Key |-> 0]]
      /\ ret' = [ret EXCEPT ![t] = "idle"] /\ key' = [key EXCEPT ![t] = 1]
      /\ new' = [new EXCEPT ![t] = Removed] /\ old' = [old EXCEPT ![t] = Removed]
      /\ node' = [node EXCEPT ![t] = 1]
  BY DEF ReturnQuery, Clock!Finish, Goto, Forget
<1>2. TypeOK'
  <2>1. 0 \in 0 .. MaxVersion
    BY BoundsAssumption
  <2> QED BY <1>1, <2>1 DEF IInv, TypeOK, PC, lists
<1>3. ASSUME NEW u \in Thread, u # t PROVE Still(u)
  BY <1>1, <1>3 DEF IInv, TypeOK, Still
<1>4. pc'[t] = "idle" /\ call'[t] = "idle" /\ read'[t] = {}
  BY <1>1 DEF IInv, TypeOK
<1>5. Quiet
  BY <1>1, <1>3, <1>4 DEF Quiet, Still, lists, IInv
<1>6. Locals(t)' /\ Query(t)'
  BY <1>1, <1>2, <1>4 DEF IInv, Locals, Query, InInitTs, Stamping, Active
<1> QED BY <1>1, <1>2, <1>3, <1>5, <1>6, QuietSuffices

\* The return of an update: its version has a timestamp.
LEMMA ReturnInsertStep ==
    ASSUME IInv, NEW t \in Thread, ReturnInsert(t)
    PROVE  IInv'
<1> USE Numbers, NumbersNext, Constants DEF NumbersOK
<1>1. /\ UNCHANGED <<tracker, lists, global, query, before, atTick>>
      /\ pc[t] = "pushed" /\ pc' = [pc EXCEPT ![t] = "idle"]
      /\ complete' = [complete EXCEPT ![key[t]] = IF @ < node[t] THEN node[t] ELSE @]
      /\ ret' = [ret EXCEPT ![t] = "idle"] /\ key' = [key EXCEPT ![t] = 1]
      /\ new' = [new EXCEPT ![t] = Removed] /\ old' = [old EXCEPT ![t] = Removed]
      /\ node' = [node EXCEPT ![t] = 1]
  BY DEF ReturnInsert, Return, Goto, Forget
<1>2. TypeOK'
  <2>1. node[t] \in 0 .. MaxVersion
    BY BoundsAssumption DEF IInv, TypeOK, Version
  <2>2. complete' \in [Key -> 0 .. MaxVersion]
    BY <1>1, <2>1 DEF IInv, TypeOK
  <2> QED BY <1>1, <2>2 DEF IInv, TypeOK, PC, tracker, lists, query
<1>3. ASSUME NEW u \in Thread, u # t PROVE Still(u)
  BY <1>1, <1>3 DEF IInv, TypeOK, Still, tracker, query
<1>4. pc'[t] = "idle"
  BY <1>1 DEF IInv, TypeOK
<1>5. Quiet
  BY <1>1, <1>3, <1>4 DEF Quiet, Still, tracker, lists, IInv
<1>6. Locals(t) /\ ~ Active(t) /\ call[t] # "pending"
  BY <1>1 DEF IInv, Locals, InInitTs
<1>7. Locals(t)' /\ Query(t)'
  BY <1>1, <1>2, <1>4, <1>6 DEF IInv, Locals, Query, InInitTs, Stamping, Active, tracker, query
<1>8. Grow /\ LateStays /\ Lists'
  BY <1>2, <1>5, QuietStep
<1>9. \A u \in Thread : Locals(u)' /\ Query(u)'
  BY <1>2, <1>3, <1>7, <1>8, OtherThread
<1>10. ASSUME NEW k \in Key, complete'[k] # 0 PROVE Early(k, complete[k], clock + 1)'
  <2>1. ts[key[t]][node[t]] # Invalid /\ node[t] <= vhead[key[t]]
        /\ ts[key[t]][node[t]] <= clock
    BY <1>1, <1>6 DEF IInv, Locals, Lists
  <2>2. complete'[k] = complete[k] \/ (k = key[t] /\ complete'[k] = node[t])
    BY <1>1 DEF IInv, TypeOK
  <2>3. CASE complete'[k] = complete[k]
    BY <1>1, <1>10, <2>3 DEF IInv, History, Early, tracker, lists, Invalid
  <2>4. CASE k = key[t] /\ complete'[k] = node[t]
    BY <1>1, <2>1, <2>4 DEF IInv, Early, tracker, lists, Invalid
  <2> QED BY <2>2, <2>3, <2>4
<1>11. ASSUME NEW k \in Key, NEW j \in Key, NEW i \in Version, before'[k][i][j] # 0
       PROVE  /\ Early(j, before[k][i][j], clock + 1)'
              /\ ts'[k][i] # Invalid' => ts'[j][before'[k][i][j]] <= ts'[k][i]
              /\ \A u \in Thread : Stamping(u, k, i)' => ts'[j][before'[k][i][j]] <= global'[u]
  <2>1. /\ Early(j, before[k][i][j], clock + 1)
        /\ ts[k][i] # Invalid => ts[j][before[k][i][j]] <= ts[k][i]
        /\ \A u \in Thread : Stamping(u, k, i) => ts[j][before[k][i][j]] <= global[u]
    BY <1>1, <1>11 DEF IInv, History
  <2>2. Early(j, before[k][i][j], clock + 1)'
    BY <1>1, <2>1 DEF Early, tracker, lists, Invalid
  <2>3. \A u \in Thread : Stamping(u, k, i)' => Stamping(u, k, i)
    BY <1>1, <1>3, <1>4 DEF Stamping, Still, lists, Invalid
  <2> QED BY <1>1, <2>1, <2>2, <2>3 DEF lists, Invalid
<1>12. History'
  BY <1>10, <1>11 DEF History
<1> QED BY <1>2, <1>8, <1>9, <1>12 DEF IInv

-----------------------------------------------------------------------------
(* Steps that stamp a version or push one *)

\* Enough to prove of any step of t.
LEMMA StepSuffices ==
    ASSUME IInv, TypeOK', Grow, LateStays, Lists', History',
           NEW t \in Thread, \A u \in Thread : u # t => Still(u),
           Locals(t)', Query(t)'
    PROVE  IInv'
<1>1. \A u \in Thread : Locals(u)' /\ Query(u)'
  BY OtherThread
<1> QED BY <1>1 DEF IInv

\* A thread that stays at the same version of the same key, inside init_ts or
\* on its way out of it, keeps what its query knows.
LEMMA QueryStays ==
    ASSUME IInv, TypeOK', Grow, LateStays, NEW t \in Thread, InInitTs(t), pc'[t] # "scan",
           UNCHANGED <<call, qts, key, node, got, read, atTick>>
    PROVE  Query(t)'
<1> USE Numbers, NumbersNext, Constants DEF NumbersOK, IInv
<1> SUFFICES ASSUME Active(t)' PROVE Query(t)'
  BY DEF Query
<1>1. Active(t) /\ Query(t) /\ pc[t] # "scan"
  BY DEF Active, InInitTs
<1>2. qts'[t] = qts[t] /\ qts[t] <= clock /\ qts'[t] <= clock'
  BY <1>1 DEF Query, Grow
<1>3. ASSUME NEW k \in Key, NEW i \in Version, Early(k, i, qts[t])
      PROVE  Early(k, i, qts[t])'
  BY <1>2, <1>3 DEF Early, Grow
<1>4. ASSUME NEW k \in Key, NEW i \in Version, Late(k, i, qts[t])
      PROVE  Late(k, i, qts[t])'
  <2>1. PICK T \in Nat : T = qts[t]
    OBVIOUS
  <2>2. Late(k, i, T)'
    BY <1>2, <1>4, <2>1 DEF LateStays
  <2> QED BY <1>2, <2>1, <2>2 DEF Late
<1>5. \A k \in Key : atTick'[t][k] # 0 => Early(k, atTick[t][k], qts[t])'
  BY <1>1, <1>3 DEF Query
<1>6. ASSUME NEW k \in read'[t]
      PROVE  /\ got'[t][k] # 0 => Early(k, got[t][k], qts[t])'
             /\ \A i \in Version : got'[t][k] < i => Late(k, i, qts[t])'
  BY <1>1, <1>3, <1>4, <1>6 DEF Query
<1>7. \A i \in Version : node'[t] < i => Late(key[t], i, qts[t])'
  BY <1>1, <1>4 DEF Query
<1> QED BY <1>2, <1>5, <1>6, <1>7 DEF Query

\* init_ts reads the clock: every query that has its timestamp is behind it.
LEMMA StampStep ==
    ASSUME IInv, NEW t \in Thread, Stamp(t)
    PROVE  IInv'
<1> USE Numbers, NumbersNext, Constants DEF NumbersOK
<1> DEFINE unset == ts[key[t]][node[t]] = Invalid
<1>1. /\ UNCHANGED <<tracker, lists, ret, key, new, old, node, query, history>>
      /\ pc[t] = "stamp" /\ pc' = [pc EXCEPT ![t] = IF unset THEN "stampCAS" ELSE ret[t]]
      /\ global' = [global EXCEPT ![t] = IF unset THEN clock ELSE 0]
  BY DEF Stamp, StampLoad, Goto
<1>2. Locals(t) /\ ret[t] \in {"readValue", "push", "pushed", "walk"} /\ InInitTs(t)
  BY <1>1 DEF IInv, TypeOK, Locals, InInitTs
<1>3. /\ unset => pc'[t] = "stampCAS" /\ global'[t] = clock
      /\ ~ unset => pc'[t] = ret[t] /\ global'[t] = 0
      /\ pc'[t] \in PC
  BY <1>1, <1>2 DEF IInv, TypeOK, PC
<1>4. TypeOK'
  <2>1. pc' \in [Thread -> PC]
    BY <1>1, <1>3 DEF IInv, TypeOK
  <2>2. global' \in [Thread -> Nat]
    BY <1>1 DEF IInv, TypeOK
  <2> QED BY <1>1, <2>1, <2>2 DEF IInv, TypeOK, tracker, lists, query, history
<1>5. ASSUME NEW u \in Thread, u # t PROVE Still(u)
  BY <1>1, <1>5 DEF IInv, TypeOK, Still, tracker, query, history
<1>6. Grow /\ Lists'
  BY <1>1, <1>4 DEF IInv, Grow, Lists, tracker, lists, Invalid
<1>7. ASSUME NEW u \in Thread, NEW k \in Key, NEW i \in Version, Stamping(u, k, i)'
      PROVE  (Stamping(u, k, i) /\ global'[u] = global[u]) \/ global'[u] = clock
  <2>1. CASE u = t
    BY <1>1, <1>2, <1>3, <1>7, <2>1 DEF Stamping
  <2>2. CASE u # t
    BY <1>1, <1>5, <1>7, <2>2 DEF Stamping, Still, lists, Invalid
  <2> QED BY <2>1, <2>2
<1>8. LateStays
  BY <1>1, <1>7 DEF IInv, LateStays, Late, lists, Invalid
<1>9. Locals(t)'
  <2>1. ASSUME NEW k \in Key, NEW i \in Version, NEW j \in Version, Stamping(t, k, i)', j < i
        PROVE  ts'[k][j] <= global'[t]
    BY <1>1, <1>2, <1>3, <2>1 DEF Stamping, IInv, Lists, lists
  <2> QED BY <1>1, <1>2, <1>3, <1>4, <2>1
       DEF IInv, Locals, InInitTs, Active, tracker, lists, query, Invalid
<1>10. Query(t)'
  BY <1>1, <1>2, <1>3, <1>4, <1>6, <1>8, QueryStays DEF tracker, query, history
<1>11. History'
  <2>1. ASSUME NEW k \in Key, complete'[k] # 0 PROVE Early(k, complete[k], clock + 1)'
    BY <1>1, <2>1 DEF IInv, History, Early, tracker, lists, history, Invalid
  <2>2. ASSUME NEW k \in Key, NEW j \in Key, NEW i \in Version, before'[k][i][j] # 0
        PROVE  /\ Early(j, before[k][i][j], clock + 1)'
               /\ ts'[k][i] # Invalid' => ts'[j][before'[k][i][j]] <= ts'[k][i]
               /\ \A u \in Thread : Stamping(u, k, i)' => ts'[j][before'[k][i][j]] <= global'[u]
    <3>1. /\ Early(j, before[k][i][j], clock + 1)
          /\ ts[k][i] # Invalid => ts[j][before[k][i][j]] <= ts[k][i]
          /\ \A u \in Thread : Stamping(u, k, i) => ts[j][before[k][i][j]] <= global[u]
      BY <1>1, <2>2 DEF IInv, History, history
    <3>2. before[k][i][j] \in Version /\ ts[j][before[k][i][j]] <= clock
      BY <1>1, <2>2 DEF IInv, Lists, history
    <3>3. Early(j, before[k][i][j], clock + 1)'
      BY <1>1, <3>1 DEF Early, tracker, lists, history, Invalid
    <3> QED BY <1>1, <1>7, <3>1, <3>2, <3>3 DEF lists, history, Invalid
  <2> QED BY <2>1, <2>2 DEF History
<1> QED BY <1>4, <1>5, <1>6, <1>8, <1>9, <1>10, <1>11, StepSuffices

\* init_ts writes the timestamp, unless another thread already has.
LEMMA StampCASStep ==
    ASSUME IInv, NEW t \in Thread, StampCAS(t)
    PROVE  IInv'
<1> USE Numbers, NumbersNext, Constants DEF NumbersOK
<1> DEFINE K == key[t]
           N == node[t]
<1>1. /\ UNCHANGED <<tracker, val, vhead, ret, key, new, old, node, query, history>>
      /\ pc[t] = "stampCAS" /\ pc' = [pc EXCEPT ![t] = ret[t]]
      /\ ts' = [ts EXCEPT ![K][N] = IF ts[K][N] = Invalid THEN global[t] ELSE ts[K][N]]
      /\ global' = [global EXCEPT ![t] = 0]
  BY DEF StampCAS, StampWith, Goto
<1>2. /\ Locals(t) /\ ret[t] \in {"readValue", "push", "pushed", "walk"} /\ InInitTs(t)
      /\ K \in Key /\ N \in Version /\ N <= vhead[K] /\ global[t] \in Nat /\ global[t] <= clock
  BY <1>1 DEF IInv, TypeOK, Locals, InInitTs
<1>3. pc'[t] = ret[t] /\ pc'[t] \in PC /\ pc'[t] # "stampCAS" /\ pc'[t] # "scan"
  BY <1>1, <1>2 DEF IInv, TypeOK, PC
<1>4. \A k \in Key : \A i \in Version : ts'[k][i] =
         IF k = K /\ i = N /\ ts[k][i] = Invalid THEN global[t] ELSE ts[k][i]
  <2>1. ts \in [Key -> [Version -> Nat \cup {Invalid}]] /\ K \in Key /\ N \in Version
    BY <1>2 DEF IInv, TypeOK
  <2>2. \A k \in Key : \A i \in Version : ts'[k][i] =
           IF k = K /\ i = N
             THEN IF ts[K][N] = Invalid THEN global[t] ELSE ts[K][N]
             ELSE ts[k][i]
    BY ZenonT(60), <1>1, <2>1
  <2> QED BY <2>2
<1>5. TypeOK'
  <2>1. pc' \in [Thread -> PC]
    BY <1>1, <1>3 DEF IInv, TypeOK
  <2>2. ts' \in [Key -> [Version -> Nat \cup {Invalid}]]
    <3>0. ts[K][N] \in Nat \cup {Invalid} /\ global[t] \in Nat \cup {Invalid}
      BY <1>2 DEF IInv, TypeOK
    <3>1. PICK time \in Nat \cup {Invalid} : ts' = [ts EXCEPT ![K][N] = time]
      BY <1>1, <3>0
    <3> QED BY <1>2, <3>1 DEF IInv, TypeOK
  <2>3. global' \in [Thread -> Nat]
    BY <1>1 DEF IInv, TypeOK
  <2> QED BY <1>1, <2>1, <2>2, <2>3 DEF IInv, TypeOK, tracker, query, history
<1>6. ASSUME NEW u \in Thread, u # t PROVE Still(u)
  BY ZenonT(60), <1>1, <1>6 DEF IInv, TypeOK, Still, tracker, query, history
<1>7. Grow
  <2>1. clock' = clock /\ vhead' = vhead
    BY <1>1 DEF tracker
  <2>2. \A k \in Key : \A i \in Version : ts[k][i] # Invalid => ts'[k][i] = ts[k][i]
    BY <1>4
  <2> QED BY <2>1, <2>2 DEF IInv, Grow
<1>8. ASSUME NEW u \in Thread, NEW k \in Key, NEW i \in Version, Stamping(u, k, i)'
      PROVE  Stamping(u, k, i) /\ global'[u] = global[u]
  <2>1. u # t
    BY <1>3, <1>8 DEF Stamping
  <2>2. ts'[k][i] = Invalid /\ pc[u] = "stampCAS" /\ key[u] = k /\ node[u] = i
    BY <1>1, <1>6, <1>8, <2>1 DEF Stamping, Still, Invalid
  <2>3. ts[k][i] = Invalid
    BY <1>2, <1>4, <2>2
  <2> QED BY <1>6, <2>1, <2>2, <2>3 DEF Stamping, Still
<1>9. ASSUME ts[K][N] = Invalid PROVE Stamping(t, K, N)
  BY <1>1, <1>9 DEF Stamping
<1>10. LateStays
  <2> SUFFICES ASSUME NEW k \in Key, NEW i \in Version, NEW T \in Nat, Late(k, i, T)
               PROVE  Late(k, i, T)'
    BY DEF LateStays
  <2>1. ts'[k][i] = Invalid \/ ts'[k][i] >= T
    BY <1>2, <1>4, <1>9 DEF Late
  <2> QED BY <1>8, <2>1 DEF Late, Invalid
<1>11. Lists'
  <2> SUFFICES ASSUME NEW k \in Key, NEW i \in Version
               PROVE  /\ i < vhead[k] => ts'[k][i] # Invalid
                      /\ vhead[k] < i => ts'[k][i] = Invalid
                      /\ ts'[k][i] <= clock
                      /\ \A j \in Version : i <= j /\ ts'[k][j] # Invalid => ts'[k][i] <= ts'[k][j]
    BY <1>1 DEF Lists, tracker, Invalid
  <2>1. /\ i < vhead[k] => ts[k][i] # Invalid
        /\ vhead[k] < i => ts[k][i] = Invalid
        /\ ts[k][i] <= clock
    BY DEF IInv, Lists
  <2>2. ASSUME NEW j \in Version, i <= j, ts'[k][j] # Invalid PROVE ts'[k][i] <= ts'[k][j]
    <3>1. CASE ts[k][j] # Invalid
      <4>1. ts[k][i] <= ts[k][j] /\ j <= vhead[k]
        BY <2>2, <3>1 DEF IInv, Lists
      <4>2. CASE i = j
        BY <1>5, <4>2
      <4>3. CASE i < j
        BY <1>4, <2>1, <3>1, <4>1, <4>3 DEF IInv
      <4> QED BY <2>2, <4>2, <4>3
    <3>2. CASE ts[k][j] = Invalid
      <4>1. k = K /\ j = N /\ ts'[k][j] = global[t] /\ Stamping(t, k, j)
        BY <1>4, <1>9, <2>2, <3>2
      <4>2. CASE i = j
        BY <1>5, <4>2
      <4>3. CASE i < j
        <5>1. ts[k][i] <= global[t]
          BY <1>2, <4>1, <4>3 DEF Locals
        <5> QED BY <1>4, <4>1, <4>3, <5>1
      <4> QED BY <2>2, <4>2, <4>3
    <3> QED BY <3>1, <3>2
  <2> QED BY <1>2, <1>4, <2>1, <2>2 DEF IInv
<1>12. Locals(t)'
  <2>1. ts'[key'[t]][node'[t]] # Invalid'
    <3>1. ts'[K][N] # Invalid
      BY <1>2, <1>4
    <3> QED BY <1>1, <3>1 DEF Invalid
  <2>2. node'[t] <= vhead'[key'[t]] /\ global'[t] = 0
    BY <1>1, <1>2 DEF IInv, TypeOK
  <2>3. global'[t] <= clock'
    BY <1>5, <2>2
  <2>4. \A k \in Key : \A i \in Version : ~ Stamping(t, k, i)'
    BY <1>3 DEF Stamping
  <2>5. /\ Active(t)' <=> Active(t)
        /\ call'[t] = call[t] /\ read'[t] = read[t] /\ ret'[t] = ret[t]
    BY <1>1 DEF Active, tracker, query
  <2>6. Active(t)' <=> pc'[t] \in {"scan", "walk"} \/ (InInitTs(t)' /\ ret'[t] = "walk")
    BY <1>1, <1>2, <1>3, <2>5 DEF Locals, InInitTs
  <2> QED BY <1>1, <1>2, <1>3, <2>1, <2>2, <2>3, <2>4, <2>5, <2>6 DEF Locals, InInitTs
<1>13. Query(t)'
  BY <1>1, <1>2, <1>3, <1>5, <1>7, <1>10, QueryStays DEF tracker, query, history
<1>14. History'
  <2>0. ASSUME NEW k \in Key, NEW i \in Version, Early(k, i, clock + 1)
        PROVE  Early(k, i, clock + 1)'
    BY <1>1, <1>7, <2>0 DEF Early, tracker, Grow, Invalid
  <2>1. ASSUME NEW k \in Key, complete'[k] # 0 PROVE Early(k, complete[k], clock + 1)'
    BY <1>1, <2>0, <2>1 DEF IInv, History, history, Early
  <2>2. ASSUME NEW k \in Key, NEW j \in Key, NEW i \in Version, before'[k][i][j] # 0
        PROVE  /\ Early(j, before[k][i][j], clock + 1)'
               /\ ts'[k][i] # Invalid' => ts'[j][before'[k][i][j]] <= ts'[k][i]
               /\ \A u \in Thread : Stamping(u, k, i)' => ts'[j][before'[k][i][j]] <= global'[u]
    <3>1. /\ Early(j, before[k][i][j], clock + 1)
          /\ ts[k][i] # Invalid => ts[j][before[k][i][j]] <= ts[k][i]
          /\ \A u \in Thread : Stamping(u, k, i) => ts[j][before[k][i][j]] <= global[u]
          /\ before[k][i][j] \in Version /\ before' = before
      BY <1>1, <2>2 DEF IInv, History, history
    <3>2. Early(j, before[k][i][j], clock + 1)'
      BY <2>0, <3>1 DEF Early
    <3>3. ts'[j][before'[k][i][j]] = ts[j][before[k][i][j]]
      BY <1>4, <3>1 DEF Early
    <3>4. ts'[k][i] # Invalid' => ts'[j][before'[k][i][j]] <= ts'[k][i]
      BY <1>4, <1>9, <3>1, <3>3 DEF Invalid
    <3> QED BY <1>8, <3>1, <3>2, <3>3, <3>4
  <2> QED BY <2>1, <2>2 DEF History
<1> QED BY <1>5, <1>6, <1>7, <1>10, <1>11, <1>12, <1>13, <1>14, StepSuffices

\* The new version hides a stamped one, and nobody is about to stamp it.
LEMMA PushStep ==
    ASSUME IInv, NEW t \in Thread, Push(t)
    PROVE  IInv'
<1> USE Numbers, NumbersNext, Constants DEF NumbersOK
<1> DEFINE K == key[t]
           N == vhead[K] + 1
<1>1. /\ UNCHANGED <<tracker, key, new, old, global, query, complete, atTick>>
      /\ vhead[K] = node[t] /\ N <= MaxVersion
      /\ val' = [val EXCEPT ![K][N] = new[t]]
      /\ ts' = [ts EXCEPT ![K][N] = Invalid]
      /\ vhead' = [vhead EXCEPT ![K] = N]
      /\ before' = [before EXCEPT ![K][N] = complete]
      /\ node' = [node EXCEPT ![t] = N]
      /\ ret' = [ret EXCEPT ![t] = "pushed"]
      /\ pc[t] = "push" /\ pc' = [pc EXCEPT ![t] = "stamp"]
  BY DEF Push, PushWith, Goto
<1>2. K \in Key /\ vhead[K] \in Version /\ N \in Version /\ N > vhead[K]
  <2>1. K \in Key /\ vhead[K] \in Version
    BY DEF IInv
  <2> QED BY <1>1, <2>1, BoundsAssumption DEF Version
<1>3. TypeOK'
  BY SMTT(60), <1>1, <1>2 DEF IInv, TypeOK, PC, tracker, query
<1>4. /\ \A k \in Key : vhead'[k] = IF k = K THEN N ELSE vhead[k]
      /\ pc'[t] = "stamp" /\ ret'[t] = "pushed" /\ node'[t] = N /\ key'[t] = K
      /\ clock' = clock /\ global' = global /\ complete' = complete
  BY <1>1 DEF IInv, TypeOK, tracker
<1>5. \A k \in Key : \A i \in Version : ts'[k][i] = ts[k][i]
  <2>1. ts[K][N] = Invalid
    BY <1>2 DEF IInv, Lists
  <2> QED BY <1>1, <1>2, <2>1 DEF IInv, TypeOK
<1>6. \A k, j \in Key : \A i \in Version :
         before'[k][i][j] = IF k = K /\ i = N THEN complete[j] ELSE before[k][i][j]
  BY <1>1, <1>2 DEF IInv, TypeOK
<1>7. ASSUME NEW u \in Thread, u # t PROVE Still(u)
  BY <1>1, <1>7 DEF IInv, TypeOK, Still, tracker, query
<1>8. Grow
  <2>1. \A k \in Key : vhead[k] <= vhead'[k]
    BY <1>2, <1>4 DEF IInv
  <2> QED BY <1>4, <1>5, <2>1 DEF IInv, Grow
<1>9. ASSUME NEW u \in Thread, NEW k \in Key, NEW i \in Version, Stamping(u, k, i)'
      PROVE  Stamping(u, k, i) /\ ~ (k = K /\ i = N)
  <2>1. u # t
    BY <1>4, <1>9 DEF Stamping
  <2>2. Stamping(u, k, i)
    BY <1>5, <1>7, <1>9, <2>1 DEF Stamping, Still, Invalid
  <2>3. i <= vhead[k]
    BY <2>2 DEF IInv, Locals, Stamping, InInitTs
  <2> QED BY <1>2, <2>2, <2>3
<1>10. LateStays
  BY <1>4, <1>5, <1>9 DEF LateStays, Late, Invalid
<1>11. ts[K][vhead[K]] # Invalid /\ Locals(t) /\ ~ Active(t)
  BY <1>1 DEF IInv, Locals, InInitTs
<1>12. Lists'
  <2>1. ASSUME NEW k \in Key, NEW i \in Version, i < vhead'[k] PROVE ts[k][i] # Invalid
    <3>1. CASE k = K
      <4>1. i = vhead[k] \/ i < vhead[k]
        BY <1>2, <1>4, <2>1, <3>1
      <4> QED BY <1>11, <3>1, <4>1 DEF IInv, Lists
    <3>2. CASE k # K
      BY <1>4, <2>1, <3>2 DEF IInv, Lists
    <3> QED BY <3>1, <3>2
  <2>2. ASSUME NEW k \in Key, NEW i \in Version, vhead'[k] < i PROVE ts[k][i] = Invalid
    <3>1. vhead[k] < i
      BY <1>3, <1>8, <2>2 DEF IInv, Grow
    <3> QED BY <3>1 DEF IInv, Lists
  <2> QED BY <1>4, <1>5, <2>1, <2>2 DEF IInv, Lists, Invalid
<1>13. Locals(t)'
  <2>1. node'[t] <= vhead'[key'[t]] /\ global'[t] <= clock'
    BY <1>2, <1>3, <1>4, <1>11 DEF Locals
  <2>2. Active(t)' <=> Active(t)
    BY <1>1 DEF Active, tracker
  <2>3. call'[t] # "pending" /\ read'[t] = read[t]
    BY <1>1, <1>11 DEF Locals, tracker, query
  <2> QED BY <1>4, <1>11, <2>1, <2>2, <2>3 DEF Locals, InInitTs, Stamping
<1>14. Query(t)'
  BY <1>1, <1>11 DEF Query, Active, tracker
<1>15. History'
  <2>0. ASSUME NEW k \in Key, NEW i \in Version, Early(k, i, clock + 1)
        PROVE  Early(k, i, clock + 1)'
    BY <1>3, <1>4, <1>8, <2>0 DEF IInv, Early, Grow, Invalid
  <2>1. ASSUME NEW k \in Key, complete'[k] # 0 PROVE Early(k, complete[k], clock + 1)'
    BY <1>4, <2>0, <2>1 DEF IInv, History, Early
  <2>2. ASSUME NEW k \in Key, NEW j \in Key, NEW i \in Version, before'[k][i][j] # 0
        PROVE  /\ Early(j, before[k][i][j], clock + 1)'
               /\ ts'[k][i] # Invalid' => ts'[j][before'[k][i][j]] <= ts'[k][i]
               /\ \A u \in Thread : Stamping(u, k, i)' => ts'[j][before'[k][i][j]] <= global'[u]
    <3>1. CASE k = K /\ i = N
      <4>1. before'[k][i][j] = complete'[j] /\ ts'[k][i] = Invalid
        BY <1>2, <1>4, <1>5, <1>6, <3>1 DEF IInv, Lists
      <4>2. Early(j, before[k][i][j], clock + 1)'
        BY <2>1, <2>2, <4>1 DEF Early
      <4> QED BY <1>9, <3>1, <4>1, <4>2 DEF Invalid
    <3>2. CASE ~ (k = K /\ i = N)
      <4>1. /\ Early(j, before[k][i][j], clock + 1)
            /\ ts[k][i] # Invalid => ts[j][before[k][i][j]] <= ts[k][i]
            /\ \A u \in Thread : Stamping(u, k, i) => ts[j][before[k][i][j]] <= global[u]
            /\ before[k][i][j] \in Version /\ before'[k][i][j] = before[k][i][j]
        BY <1>6, <2>2, <3>2 DEF IInv, History
      <4>2. Early(j, before[k][i][j], clock + 1)'
        BY <2>0, <4>1 DEF Early
      <4> QED BY <1>4, <1>5, <1>9, <4>1, <4>2 DEF Invalid
    <3> QED BY <3>1, <3>2
  <2> QED BY <2>1, <2>2 DEF History
<1> QED BY <1>3, <1>7, <1>8, <1>10, <1>12, <1>13, <1>14, <1>15, StepSuffices

-----------------------------------------------------------------------------
(* Theorems *)

LEMMA NextIInv == IInv /\ [Next]_vars => IInv'
<1> SUFFICES ASSUME IInv, [Next]_vars PROVE IInv'
  OBVIOUS
<1>1. CASE UNCHANGED vars
  BY <1>1 DEF vars, tracker, lists, locals, query, history, IInv, TypeOK, Lists, Locals, Query,
              History, Stamping, InInitTs, Active, Late, Early
<1>2. ASSUME NEW t \in Thread, Step(t) PROVE IInv'
  BY <1>2, WriterMoveStep, StampStep, StampCASStep, PushStep, ReturnInsertStep, TickStep, WalkStep,
     ReturnQueryStep DEF Step, WriterMove
<1>3. ASSUME NEW t \in Thread, CallQuery(t) PROVE IInv'
  BY <1>3, TickStep
<1>4. ASSUME NEW t \in Thread, NEW k \in Key, VersionedLoad(t, k) PROVE IInv'
  BY <1>4, VersionedLoadStep
<1>5. ASSUME NEW t \in Thread, NEW k \in Key, NEW v \in Value \cup {Removed}, CallInsert(t, k, v)
      PROVE  IInv'
  BY <1>5, WriterMoveStep DEF WriterMove
<1> QED BY <1>1, <1>2, <1>3, <1>4, <1>5 DEF Next

\* The invariant holds in every reachable state, whatever the threads, keys,
\* values and bounds.
THEOREM Invariant == Spec => []IInv
BY InitIInv, NextIInv, PTL DEF Spec

\* Every variable has its type: in particular the pointers to versions are
\* never nullptr where the code dereferences them.
THEOREM TypeCorrect == Spec => []TypeOK
<1>1. IInv => TypeOK
  BY DEF IInv
<1> QED BY <1>1, Invariant, PTL

\* Only the head of a list can lack a timestamp, and timestamps do not increase
\* from the head to the oldest version: the walk of getVersionedValue needs no
\* init_ts after the first version.
THEOREM Ordered == Spec => []VersionsOrdered
<1>1. IInv => VersionsOrdered
  <2> USE Numbers, Constants DEF NumbersOK
  <2> SUFFICES ASSUME IInv, NEW k \in Key, NEW i \in 1 .. vhead[k] - 1
               PROVE  /\ ts[k][i] # Invalid
                      /\ ts[k][i + 1] # Invalid => ts[k][i] <= ts[k][i + 1]
    BY DEF VersionsOrdered
  <2>1. i \in Version /\ i + 1 \in Version /\ i < vhead[k]
    BY BoundsAssumption DEF IInv, Version
  <2> QED BY <2>1 DEF IInv, Lists
<1> QED BY <1>1, Invariant, PTL

\* What a range query has read stays the newest version below its timestamp
\* until it returns, whatever updates do meanwhile.
THEOREM Stable == Spec => []SnapshotStable
<1>1. IInv => SnapshotStable
  <2> USE Numbers, Constants DEF NumbersOK
  <2> SUFFICES ASSUME IInv, NEW t \in Thread, Active(t), NEW k \in read[t], NEW i \in Version
               PROVE  /\ i = got[t][k] => ts[k][i] # Invalid /\ ts[k][i] < qts[t]
                      /\ got[t][k] < i /\ i <= vhead[k] =>
                            ts[k][i] = Invalid \/ ts[k][i] >= qts[t]
    BY DEF SnapshotStable
  <2>1. /\ k \in Key
        /\ got[t][k] # 0 => Early(k, got[t][k], qts[t])
        /\ got[t][k] < i => Late(k, i, qts[t])
    BY DEF IInv, Query
  <2> QED BY <2>1 DEF Early, Late
<1> QED BY <1>1, Invariant, PTL

\* A range query sees every update that had returned when it obtained its
\* timestamp.
THEOREM Completed == Spec => []CompletedSeen
<1>1. IInv => CompletedSeen
  <2> USE Numbers, Constants DEF NumbersOK
  <2> SUFFICES ASSUME IInv, NEW t \in Thread, Active(t), NEW k \in read[t]
               PROVE  got[t][k] >= atTick[t][k]
    BY DEF CompletedSeen
  <2>1. k \in Key /\ got[t][k] \in Nat
    BY DEF IInv
  <2>2. CASE atTick[t][k] = 0
    BY <2>1, <2>2
  <2>3. CASE atTick[t][k] # 0
    <3>1. atTick[t][k] \in Version /\ Early(k, atTick[t][k], qts[t])
      BY <2>1, <2>3 DEF IInv, Query
    <3>2. got[t][k] < atTick[t][k] => Late(k, atTick[t][k], qts[t])
      BY <3>1 DEF IInv, Query
    <3> QED BY <2>1, <3>1, <3>2 DEF Early, Late, IInv
  <2> QED BY <2>2, <2>3
<1> QED BY <1>1, Invariant, PTL

\* The result of a range query is one moment of the history: with an update it
\* contains all updates, of whatever keys, that had returned before that one
\* took effect.
THEOREM Consistent == Spec => []ConsistentCut
<1>1. IInv => ConsistentCut
  <2> USE Numbers, Constants DEF NumbersOK
  <2> SUFFICES ASSUME IInv, NEW t \in Thread, Active(t), NEW k \in read[t], NEW j \in read[t],
                      got[t][k] # 0
               PROVE  got[t][j] >= before[k][got[t][k]][j]
    BY DEF ConsistentCut
  <2>1. k \in Key /\ j \in Key /\ got[t][k] \in Version /\ got[t][j] \in Nat
    BY DEF IInv
  <2>2. PICK b : b = before[k][got[t][k]][j]
    OBVIOUS
  <2>3. CASE b = 0
    BY <2>1, <2>2, <2>3
  <2>4. CASE b # 0
    <3>1. Early(k, got[t][k], qts[t])
      BY DEF IInv, Query
    <3>2. b \in Version /\ Early(j, b, clock + 1) /\ ts[j][b] <= ts[k][got[t][k]]
      BY <2>1, <2>2, <2>4, <3>1 DEF IInv, History, Early
    <3>3. ts[j][b] < qts[t] /\ ts[j][b] # Invalid
      BY <2>1, <3>1, <3>2 DEF Early, IInv
    <3>4. got[t][j] < b => Late(j, b, qts[t])
      BY <3>2 DEF IInv, Query
    <3>5. ts[j][b] \in Int /\ qts[t] \in Int /\ b \in Int
      BY <2>1, <3>2 DEF IInv
    <3>6. ~ Late(j, b, qts[t])
      BY <3>3, <3>5 DEF Late
    <3> QED BY <2>1, <2>2, <3>4, <3>5, <3>6
  <2> QED BY <2>3, <2>4
<1> QED BY <1>1, Invariant, PTL

\* A timestamp, once set, is never changed, whichever thread sets it.
THEOREM SetOnce == Spec => StampedOnce
<1>1. IInv /\ [Next]_vars =>
         \A k \in Key, i \in Version : ts[k][i] # Invalid => ts'[k][i] = ts[k][i]
  <2> USE Numbers, Constants DEF NumbersOK
  <2> DEFINE Once == \A k \in Key, i \in Version : ts[k][i] # Invalid => ts'[k][i] = ts[k][i]
  <2> SUFFICES ASSUME IInv, Next PROVE Once
    BY DEF vars, lists
  <2>1. PICK t \in Thread : \/ Step(t)
                            \/ CallQuery(t)
                            \/ \E k \in Key : VersionedLoad(t, k)
                            \/ \E k \in Key, v \in Value \cup {Removed} : CallInsert(t, k, v)
    BY DEF Next
  <2>2. CASE StampCAS(t)
    BY <2>2 DEF StampCAS, StampWith, IInv, TypeOK
  <2>3. CASE Push(t)
    <3>1. ts' = [ts EXCEPT ![key[t]][vhead[key[t]] + 1] = Invalid] /\ vhead[key[t]] + 1 <= MaxVersion
      BY <2>3 DEF Push, PushWith
    <3>2. key[t] \in Key /\ vhead[key[t]] + 1 \in Version /\ vhead[key[t]] < vhead[key[t]] + 1
      BY <3>1, BoundsAssumption DEF IInv, Version
    <3>3. ts[key[t]][vhead[key[t]] + 1] = Invalid
      BY <3>2 DEF IInv, Lists
    <3> QED BY <3>1, <3>2, <3>3 DEF IInv, TypeOK
  <2>4. CASE UNCHANGED ts
    BY <2>4
  <2> QED BY <2>1, <2>2, <2>3, <2>4
       DEF Step, Stamp, StampLoad, CheckFails, CheckPasses, Read, ReadValue, ReadSame, LoadHead,
           PushFail, ReturnInsert, Tick, Walk, ReturnQuery, CallQuery, VersionedLoad, CallInsert, lists
<1> QED BY <1>1, Invariant, PTL DEF Spec, StampedOnce

=============================================================================
