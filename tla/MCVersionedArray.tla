-------------------------- MODULE MCVersionedArray --------------------------
(* Instances of VersionedArray for TLC. *)
EXTENDS VersionedArray

=============================================================================
