---------------------------- MODULE VersionClock ----------------------------
(***************************************************************************)
(* What the version tracker promises to the rest of Kanva_RS: a logical    *)
(* clock that every range query moves forward by exactly one, whose new    *)
(* value is the private timestamp of that query, and a floor below every   *)
(* timestamp still in use.  A writer stamps its version with the current   *)
(* value of the clock; a query with timestamp T reads the versions whose   *)
(* stamp is smaller than T.                                                *)
(***************************************************************************)
EXTENDS Naturals

CONSTANT Thread         \* the threads that issue range queries

VARIABLES
    clock,              \* the value a writer reads (get_latest_timestamp)
    call,               \* call[t]: "idle", "pending" or "stamped"
    stamp,              \* stamp[t]: the timestamp of t's range query
    floor               \* the value get_oldest_timestamp reports

vars == <<clock, call, stamp, floor>>

Init ==
    /\ clock = 0
    /\ call = [t \in Thread |-> "idle"]
    /\ stamp = [t \in Thread |-> 0]
    /\ floor = 0

\* A range query asks for a timestamp.
Request(t) ==
    /\ call[t] = "idle"
    /\ call' = [call EXCEPT ![t] = "pending"]
    /\ UNCHANGED <<clock, stamp, floor>>

\* The one moment at which the query of t takes effect on the clock.
Tick(t) ==
    /\ call[t] = "pending"
    /\ clock' = clock + 1
    /\ call' = [call EXCEPT ![t] = "stamped"]
    /\ stamp' = [stamp EXCEPT ![t] = clock + 1]
    /\ UNCHANGED floor

\* The query has read all it wants and gives its timestamp back.
Finish(t) ==
    /\ call[t] = "stamped"
    /\ call' = [call EXCEPT ![t] = "idle"]
    /\ stamp' = [stamp EXCEPT ![t] = 0]
    /\ UNCHANGED <<clock, floor>>

\* The floor may rise, but never above a timestamp in use or one that will be.
Raise ==
    /\ floor' \in Nat
    /\ floor < floor'
    /\ floor' <= clock + 1
    /\ \A t \in Thread : call[t] = "stamped" => floor' <= stamp[t]
    /\ UNCHANGED <<clock, call, stamp>>

Next == Raise \/ \E t \in Thread : Request(t) \/ Tick(t) \/ Finish(t)

Spec == Init /\ [][Next]_vars

=============================================================================
