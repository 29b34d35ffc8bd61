---------------------------- MODULE FreezableSet ----------------------------
(***************************************************************************)
(* What the list of a leaf promises to the bin: a set of keys that calls   *)
(* of insert and remove change in one step each, until calls of collect    *)
(* freeze it.  From the moment a first collect begins, updates may be      *)
(* refused; from the moment a first collect has returned, the set takes no *)
(* more keys; and a collect returns the keys of the set, provided that     *)
(* none was ever removed.                                                  *)
(*                                                                         *)
(* That a key is in the set is answered at that moment; that it is not,    *)
(* or no longer, is answered if it was so at some moment of the call.      *)
(***************************************************************************)
EXTENDS Naturals

CONSTANTS
    Thread,         \* the threads that call
    Key             \* positive numbers

NoKey == 0

VARIABLES
    keys,           \* the set
    list,           \* "open", "freezing" or "closed"
    dropped,        \* the keys that were ever removed
    op,             \* op[t]: the operation t has called, or "none"
    arg,            \* arg[t]: its key while it is under way
    answer,         \* answer[t]: what it returns
    taken,          \* taken[t]: the keys that t's collect returns
    seen            \* seen[t]: whether the key was in the set, at moments of the call

set == <<keys, list, dropped>>
vars == <<set, op, arg, answer, taken, seen>>

Updates == {"insert", "insertNone", "remove"}

Init ==
    /\ keys \in SUBSET Key /\ list = "open" /\ dropped = {}
    /\ op = [t \in Thread |-> "none"]
    /\ arg = [t \in Thread |-> NoKey]
    /\ answer = [t \in Thread |-> "none"]
    /\ taken = [t \in Thread |-> {}]
    /\ seen = [t \in Thread |-> {}]

\* Every call under way notes whether its key is in the set.
Observe ==
    LET k(t) == IF op[t] = "none" THEN arg'[t] ELSE arg[t]
    IN  seen' = [t \in Thread |->
            IF op'[t] \in {"none", "collect"} THEN {}
              ELSE IF answer[t] # "none" THEN seen[t]
              ELSE seen[t] \cup (IF k(t) \in keys' THEN {TRUE} ELSE {FALSE})]

Call(t, o, k) ==
    /\ op[t] = "none"
    /\ op' = [op EXCEPT ![t] = o]
    /\ arg' = [arg EXCEPT ![t] = k]
    /\ UNCHANGED <<set, answer, taken>>

Reply(t, o, a) ==
    /\ op[t] = o /\ answer[t] = "none"
    /\ answer' = [answer EXCEPT ![t] = a]
    /\ arg' = [arg EXCEPT ![t] = NoKey]
    /\ UNCHANGED op

Return(t) ==
    /\ answer[t] # "none"
    /\ op' = [op EXCEPT ![t] = "none"]
    /\ answer' = [answer EXCEPT ![t] = "none"]
    /\ taken' = [taken EXCEPT ![t] = {}]
    /\ UNCHANGED <<set, arg>>

-----------------------------------------------------------------------------
Link(t) ==
    /\ Reply(t, "insert", "yes")
    /\ list # "closed" /\ arg[t] \notin keys
    /\ keys' = keys \cup {arg[t]}
    /\ UNCHANGED <<list, dropped, taken>>

Exists(t) ==
    /\ Reply(t, "insert", "no")
    /\ list # "closed" /\ arg[t] \in keys
    /\ UNCHANGED <<set, taken>>

\* insert of the value -1
Ignore(t) == Reply(t, "insertNone", "no") /\ UNCHANGED <<set, taken>>

Refuse(t) ==
    /\ \E o \in Updates : Reply(t, o, "frozen")
    /\ list # "open"
    /\ UNCHANGED <<set, taken>>

\* The key leaves the set; remove has not returned yet.
Drop(t) ==
    /\ op[t] = "remove" /\ answer[t] = "none" /\ arg[t] \in keys
    /\ keys' = keys \ {arg[t]}
    /\ dropped' = dropped \cup {arg[t]}
    /\ UNCHANGED <<list, op, arg, answer, taken>>

\* The key was in the set and left it during the call, through this or another
\* remove.
Gone(t) ==
    /\ Reply(t, "remove", "yes")
    /\ BOOLEAN \subseteq seen[t]
    /\ UNCHANGED <<set, taken>>

Absent(t) ==
    /\ \E o \in {"remove", "search"} : Reply(t, o, "no")
    /\ FALSE \in seen[t]
    /\ UNCHANGED <<set, taken>>

Found(t) ==
    /\ Reply(t, "search", "yes")
    /\ arg[t] \in keys
    /\ UNCHANGED <<set, taken>>

Begin(t) ==
    /\ op[t] = "collect" /\ answer[t] = "none" /\ list = "open"
    /\ list' = "freezing"
    /\ UNCHANGED <<keys, dropped, op, arg, answer, taken>>

Collect(t) ==
    /\ Reply(t, "collect", "yes")
    /\ list # "open" /\ list' = "closed"
    /\ \E S \in SUBSET Key : (dropped = {} => S = keys) /\ taken' = [taken EXCEPT ![t] = S]
    /\ UNCHANGED <<keys, dropped>>

-----------------------------------------------------------------------------
Step(t) ==
    \/ Link(t) \/ Exists(t) \/ Ignore(t) \/ Refuse(t)
    \/ Drop(t) \/ Gone(t) \/ Absent(t) \/ Found(t)
    \/ Begin(t) \/ Collect(t) \/ Return(t)

Next ==
    /\ \E t \in Thread :
          Step(t) \/ \E o \in Updates \cup {"search", "collect"}, k \in Key : Call(t, o, k)
    /\ Observe

Spec == Init /\ [][Next]_vars

=============================================================================
