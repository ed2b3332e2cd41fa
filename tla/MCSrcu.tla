------------------------------- MODULE MCSrcu -------------------------------
(* Instances of Srcu for TLC. *)
EXTENDS Srcu
==============================================================================
