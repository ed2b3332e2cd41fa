----------------------------- MODULE MCPageLock ------------------------------
(* Instances of PageLock for TLC. *)
EXTENDS PageLock
==============================================================================
