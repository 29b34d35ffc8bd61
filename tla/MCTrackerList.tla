---------------------------- MODULE MCTrackerList ----------------------------
(* Instances of TrackerList for TLC. *)
EXTENDS TrackerList
=============================================================================
