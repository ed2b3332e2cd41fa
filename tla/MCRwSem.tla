------------------------------- MODULE MCRwSem -------------------------------
(* Instances of RwSem for TLC. *)
EXTENDS RwSem
==============================================================================
