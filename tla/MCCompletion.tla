----------------------------- MODULE MCCompletion ----------------------------
(* Instances of Completion for TLC. *)
EXTENDS Completion
==============================================================================
