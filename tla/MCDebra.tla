------------------------------ MODULE MCDebra ------------------------------
(* The instance of Debra that TLC checks. *)
EXTENDS Debra
=============================================================================
