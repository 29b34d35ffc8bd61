----------------------------- MODULE MCUruvBin -----------------------------
(* The instances of UruvBin that TLC checks. *)
EXTENDS UruvBin
=============================================================================
